---------------------------- MODULE Spec2Model ----------------------------
(***************************************************************************)
(* Model of the chunked-upload server (src/src/server.js, class            *)
(* UploadServer) with its SQLite store (src/unnamed/part_007, class        *)
(* Database), the filename helpers (src/src/utils/movieParser.js) and the  *)
(* transcode queue it feeds (src/src/worker/mediaQueue.js).                *)
(*                                                                         *)
(* Every async handler is cut at its awaits: the "Begin" action is the     *)
(* synchronous prefix of the handler up to its first await, and every      *)
(* later action is the completion of the awaited operation (its effect on  *)
(* the file system or the database) followed by the handler's code up to   *)
(* the next await; each is an operator from the state to the next state.   *)
(* Spec runs the handlers one request at a time (a handler runs from its   *)
(* request to its response in one action); SpecConc interleaves the        *)
(* handlers of concurrent requests at their awaits.                        *)
(*                                                                         *)
(* SpecWorker adds the transcode worker (MediaWorker in server.js) behind  *)
(* the Bull queue, with the tail of completeUpload that feeds it;          *)
(* SpecDelivery the Range handling of the delivery servers (MediaServer    *)
(* in mediaQueue.js, MediaOnlyServer in media-only-server.js); SpecClient  *)
(* the upload page of the browser (frontend/src/pages/Upload.jsx), and     *)
(* SpecClientFair the same page when every request succeeds, with the      *)
(* fairness of the browser's event loop; SpecIngress the two rate          *)
(* limiters in front of the /api routes; SpecStorage the page's copy of    *)
(* its uploads in localStorage; SpecPlan the chunk plan of one upload.     *)
(* Each has its own variables and leaves those of the others unchanged.    *)
(* SpecSweepFair is Spec with the fairness of the sweep timer, the clock   *)
(* and the sending of answers.                                             *)
(***************************************************************************)
EXTENDS Integers, Sequences, FiniteSets, TLC

(***************************************************************************)
(* Bounds of the model                                                     *)
(***************************************************************************)
\* cap on the length of a session's uploadedChunks array (it grows by one
\* with every accepted chunk request, without limit in the code)
MaxAccepted == 3
\* the clock stops advancing at this hour
MaxNow == 48
\* hours the clock advances in one step
TickHours == 24
\* number of uploads that reach the end of file assembly
MaxUploads == 3
\* size in bytes of the largest file the delivery servers are asked for
MaxVideoLen == 11
\* number of chunks of the largest file the browser client uploads
MaxChunks == 4
\* number of pause, resume and cancel clicks of the user
MaxClicks == 2
\* requests of the client a rate limiter counts in one window
MaxHits == 6
\* number of uploads in the list of the page
MaxListed == 2
\* largest file size and chunk size of a chunk plan, in bytes
MaxPlanSize == 12

(***************************************************************************)
(* Program constants                                                       *)
(***************************************************************************)
\* config.upload.sessionTimeout, 24 * 60 * 60 * 1000 ms, in hours
SessionTimeout == 24
\* config.upload.maxFileSize, 4 * 1024 * 1024 * 1024 bytes, in MiB: sizes and
\* offsets are counted in blocks of 1 MiB (config.upload.chunkSize is 1), and
\* a file's content is the sequence of its blocks
MaxFileSize == 4096

AllowedExtensions == {".mp4", ".mkv", ".avi", ".mov", ".wmv", ".flv", ".webm"}

(***************************************************************************)
(* Inputs                                                                  *)
(***************************************************************************)
\* the session ids uuidv4() hands out, in the order it hands them out
SessionIds == {1, 2}
\* an id no session ever had
UnknownId == 0

\* file names a client uploads: stem, separator-delimited year, extension
Filenames ==
    { [stem |-> "heat",  year |-> 1995, ext |-> ".MP4"],
      [stem |-> "notes", year |-> 1995, ext |-> ".txt"] }

\* declared sizes: none, a small file, one block above the limit
FileSizes == {0, 3, MaxFileSize + 1}

ChunkSizes == {2}

\* no session object yet, and a session object nothing refers to any more
NoSession == [absent |-> TRUE]
Collected == [collected |-> TRUE]
NoDir     == [exists |-> FALSE, files |-> <<>>]
EmptyDir  == [exists |-> TRUE, files |-> <<>>]
NoRow     == [absent |-> TRUE]
NoFile    == <<-1>>

(***************************************************************************)
(* movieParser.js                                                          *)
(***************************************************************************)
\* String.prototype.toLowerCase on the extensions that occur
ToLowerCase(s) ==
    CASE s = ".MKV" -> ".mkv"
      [] s = ".MP4" -> ".mp4"
      [] OTHER      -> s

\* txt.charAt(0).toUpperCase() + txt.substr(1).toLowerCase() on the stems
\* that occur
Capitalize(s) ==
    CASE s = "heat"  -> "Heat"
      [] s = "HEAT"  -> "Heat"
      [] s = "notes" -> "Notes"
      [] OTHER       -> s

\* variant: every extension passes
isValidVideoFileAny(filename, allowed) == TRUE

isValidVideoFile(filename, allowed) == ToLowerCase(filename.ext) \in allowed

\* the first pattern matches stem.year: title is the capitalised stem
parseMovieInfo(filename) ==
    [title |-> Capitalize(filename.stem), year |-> filename.year]

\* `${sanitizedTitle}.${year}`
generateMovieDir(title, year) == <<title, year>>

MovieDirs ==
    { generateMovieDir(parseMovieInfo(f).title, parseMovieInfo(f).year) :
        f \in Filenames }

(***************************************************************************)
(* Content                                                                 *)
(***************************************************************************)
Min(a, b) == IF a < b THEN a ELSE b

\* variant: the quotient rounded down
TotalChunksFloor(fileSize, chunkSize) == fileSize \div chunkSize

\* Math.ceil(fileSize / chunkSize)
TotalChunks(fileSize, chunkSize) == (fileSize + chunkSize - 1) \div chunkSize

\* the file the client of session sid uploads: block j of it is 10 * sid + j
SourceFile(sid, fileSize) == [j \in 1..fileSize |-> 10 * sid + j]

\* file.slice(start, end) of chunk idx (Upload.jsx); a chunk index outside the
\* plan carries one block
ChunkPayload(sid, fileSize, chunkSize, idx) ==
    IF idx < TotalChunks(fileSize, chunkSize)
    THEN SubSeq(SourceFile(sid, fileSize), idx * chunkSize + 1,
                Min((idx + 1) * chunkSize, fileSize))
    ELSE <<0>>

\* filehandle.write(data) at the handle's position pos (a gap before pos reads
\* as 0)
\* variant: every write lands at the start of the file
WriteAtStart(content, pos, data) ==
    [j \in 1..(IF Len(data) > Len(content) THEN Len(data)
               ELSE Len(content)) |->
        IF j <= Len(data) THEN data[j] ELSE content[j]]

WriteAt(content, pos, data) ==
    [j \in 1..(IF pos + Len(data) > Len(content) THEN pos + Len(data)
               ELSE Len(content)) |->
        IF j > pos /\ j <= pos + Len(data) THEN data[j - pos]
        ELSE IF j <= Len(content) THEN content[j]
        ELSE 0]

RECURSIVE Insert(_, _)
Insert(x, s) ==
    IF s = <<>> THEN <<x>>
    ELSE IF x <= Head(s) THEN <<x>> \o s
    ELSE <<Head(s)>> \o Insert(x, Tail(s))

\* Array.prototype.sort((a, b) => a - b)
RECURSIVE SortChunks(_)
SortChunks(s) == IF s = <<>> THEN <<>> ELSE Insert(Head(s), SortChunks(Tail(s)))

Range(s) == { s[j] : j \in 1..Len(s) }

(***************************************************************************)
(* State                                                                   *)
(***************************************************************************)
VARIABLES
    now,            \* the clock (new Date()), in hours
    sessions,       \* the session objects startUpload created, by id
    uploadSessions, \* keys of the Map this.uploadSessions
    tempDirs,       \* scratch directories: files maps index to chunk_<index>
    dbSessions,     \* rows of table upload_sessions, by id
    movies,         \* rows of table movies; the row id is the position
    mediaFiles,     \* <movie dir> -> content of <movie dir>/movie.mp4
    queue,          \* jobs added to mediaQueue
    pendingRmdir,   \* scratch directories the sweep is still removing
    clientIds,      \* session ids startUpload has answered with
    cancelled,      \* history: ids cancelUpload removed from the Map
    swept,          \* history: ids the sweep removed from the Map
    reqs            \* the requests being handled, by slot

\* the media worker (class MediaWorker) with the Bull queue it consumes and
\* the tail of completeUpload that feeds it
VARIABLES
    assets,         \* rows of table movies as the worker's database sees them
    jobs,           \* jobs of mediaQueue, by job id (ids count the adds)
    waitList,       \* the queue's wait list, next job to start first
    completions     \* completeUpload calls past file assembly, by upload

workerVars == <<assets, jobs, waitList, completions>>

\* the delivery servers (classes MediaServer and MediaOnlyServer)
VARIABLES
    delivery        \* the last GET handled: handler, file, headers, response

deliveryVars == <<delivery>>

\* the upload page of the browser client (Upload.jsx 5-590) with one upload
VARIABLES
    uploads,            \* the upload in the state of the last render
    nextUploads,        \* the same with the queued setUploads updates applied
    uploadsRef,         \* the upload in uploadsRef.current
    uploadControllers,  \* the Map entry of the upload and the aborted signals
    loops,              \* calls of uploadChunks and continueUploadChunks
    transfers,          \* calls of uploadChunk, by loop and chunk index
    upstream,           \* what the server holds of the upload's session
    completeCalls,      \* history: chunks acknowledged at each completeUpload
    clicks              \* pause, resume and cancel clicks so far

clientVars == <<uploads, nextUploads, uploadsRef, uploadControllers, loops,
                transfers, upstream, completeCalls, clicks>>

\* the rate limiters in front of the /api routes (server.js 51-61)
VARIABLES
    limiterOptions,     \* the options generalLimiter and uploadLimiter have
    hits,               \* requests each limiter has counted in its window
    ingress             \* the request the middleware is handling

ingressVars == <<limiterOptions, hits, ingress>>

\* the upload list of the page and its copy in localStorage (Upload.jsx
\* 14-91)
VARIABLES
    page,               \* the uploads state of the mounted page
    storage             \* the item 'soulstream_uploads' of localStorage

storageVars == <<page, storage>>

\* the chunk plan of one upload as the server and the client compute it
VARIABLE plan

\* the variables of the upload server
uploadVars == <<now, sessions, uploadSessions, tempDirs, dbSessions, movies,
                mediaFiles, queue, pendingRmdir, clientIds, cancelled, swept,
                reqs>>

vars == <<now, sessions, uploadSessions, tempDirs, dbSessions, movies,
          mediaFiles, queue, pendingRmdir, clientIds, cancelled, swept, reqs,
          workerVars, deliveryVars, clientVars, ingressVars, storageVars, plan>>

\* the state as one value, for the operators that compute a handler's steps
State ==
    [now |-> now, sessions |-> sessions, uploadSessions |-> uploadSessions,
     tempDirs |-> tempDirs, dbSessions |-> dbSessions, movies |-> movies,
     mediaFiles |-> mediaFiles, queue |-> queue, pendingRmdir |-> pendingRmdir,
     clientIds |-> clientIds, cancelled |-> cancelled, swept |-> swept,
     reqs |-> reqs]

\* the next state is s
Becomes(s) ==
    /\ now' = s.now
    /\ sessions' = s.sessions
    /\ uploadSessions' = s.uploadSessions
    /\ tempDirs' = s.tempDirs
    /\ dbSessions' = s.dbSessions
    /\ movies' = s.movies
    /\ mediaFiles' = s.mediaFiles
    /\ queue' = s.queue
    /\ pendingRmdir' = s.pendingRmdir
    /\ clientIds' = s.clientIds
    /\ cancelled' = s.cancelled
    /\ swept' = s.swept
    /\ reqs' = s.reqs
    /\ UNCHANGED <<workerVars, deliveryVars, clientVars, ingressVars, storageVars, plan>>

Slots == {1, 2}

\* the uploads whose completion the worker model follows; createMovie hands
\* out the row ids 1, 2, ... and mediaQueue.add the job ids 1, 2, ...
Uploads == 1..MaxUploads
\* the movies whose file ffprobe and ffmpeg may fail on, at any attempt; on
\* the other files they succeed
FlakyMovies == {1}
NoAsset ==
    [status |-> "none", error_message |-> "", duration |-> 0,
     poster_path |-> "", hls_path |-> ""]
NoJob ==
    [state |-> "none", movieId |-> 0, attemptsMade |-> 0, pc |-> "idle",
     error |-> ""]
NoCompletion == [pc |-> "idle", movieId |-> 0]

\* the browser client: chunk indexes, calls of uploadChunks (loop 1) and of
\* continueUploadChunks (one per resume click), size of a chunk in the units
\* progress events count in
Chunks == 0..(MaxChunks - 1)
LoopIds == 1..(MaxClicks + 1)
ChunkLen == 2
\* the chunks whose requests the server may answer with 429 (the first
\* chunk of the first batch and the first chunk of the second) and with 500
\* (these and a second chunk of the first batch)
FlakyChunks == {0, 3}
FailingChunks == {0, 1, 3}
NoUpload ==
    [exists |-> FALSE, status |-> "none", isPaused |-> FALSE, totalChunks |-> 0,
     file |-> 0, uploaded |-> {}, loaded |-> [c \in Chunks |-> 0],
     progress |-> 0]
\* acked records the chunks that were acknowledged when the loop was called
NoLoop ==
    [kind |-> "none", pc |-> "none", chunks |-> <<>>, i |-> 0,
     everyUploaded |-> FALSE, acked |-> {}]
\* a call of uploadChunk: its request, the retryCount of the call and the
\* bytes its request has reported as sent (kept while the request is out)
NoTransfer ==
    [state |-> "none", retryCount |-> 0, sent |-> 0, error |-> "", delay |-> 0]

\* the page before a file is chosen
ClientInit ==
    /\ uploads = NoUpload
    /\ nextUploads = NoUpload
    /\ uploadsRef = NoUpload
    /\ uploadControllers = [current |-> 0, aborted |-> {}]
    /\ loops = [l \in LoopIds |-> NoLoop]
    /\ transfers = [t \in LoopIds \X Chunks |-> NoTransfer]
    /\ upstream =
          [session |-> "none", acked |-> {}, received |-> 0]
    /\ completeCalls = <<>>
    /\ clicks = 0

\* no upload planned
NoPlan ==
    [fileSize |-> 0, chunkSize |-> 0, totalChunks |-> 0, checked |-> 0,
     chunks |-> <<>>]

\* the page before its first render has run its effects: an empty list, no
\* item in localStorage
NoItem == [exists |-> FALSE, value |-> <<>>]
StorageInit ==
    /\ page = <<>>
    /\ storage = NoItem

\* the rate limiters before setupMiddleware has built them
NoIngress == [path |-> <<>>, status |-> 0]
IngressInit ==
    /\ limiterOptions = [general |-> 0, upload |-> 0]
    /\ hits = [general |-> 0, upload |-> 0]
    /\ ingress = NoIngress

\* a response not sent, and the delivery servers before their first request
NoResponse ==
    [status |-> 0, contentRange |-> <<>>, contentLength |-> 0,
     acceptRanges |-> "", contentType |-> "", json |-> "", body |-> <<>>]
NoDelivery ==
    [handler |-> "none", exists |-> FALSE, content |-> <<>>, range |-> <<>>,
     start |-> 0, hasEnd |-> FALSE, end |-> 0, response |-> NoResponse]

DeliveryInit == delivery = NoDelivery

\* no movie row, no job, no completeUpload in flight
WorkerInit ==
    /\ assets = [m \in Uploads |-> NoAsset]
    /\ jobs = [j \in Uploads |-> NoJob]
    /\ waitList = <<>>
    /\ completions = [u \in Uploads |-> NoCompletion]

\* body holds the filename and fileSize of the req.body of a start request
IdleReq ==
    [kind |-> "none", pc |-> "idle", sid |-> UnknownId, idx |-> 0, res |-> 0,
     i |-> 0, pos |-> 0, chunkData |-> <<>>, movieId |-> 0, val |-> 0,
     body |-> <<>>]

\* the request in slot r is suspended at await pc of handler kind
At(s, r, kind, pc) == s.reqs[r].kind = kind /\ s.reqs[r].pc = pc

\* res.status(status).json(...): the handler of slot r has answered
Answer(s, r, status) ==
    [s EXCEPT !.reqs[r] = [@ EXCEPT !.pc = "done", !.res = status]]

\* the handler of slot r goes on to await pc
Await(s, r, pc) == [s EXCEPT !.reqs[r].pc = pc]

Init ==
    /\ now = 0
    /\ sessions = [sid \in SessionIds |-> NoSession]
    /\ uploadSessions = {}
    /\ tempDirs = [sid \in SessionIds |-> NoDir]
    /\ dbSessions = [sid \in SessionIds |-> NoRow]
    /\ movies = <<>>
    /\ mediaFiles = [d \in MovieDirs |-> NoFile]
    /\ queue = <<>>
    /\ pendingRmdir = {}
    /\ clientIds = {}
    /\ cancelled = {}
    /\ swept = {}
    /\ reqs = [r \in Slots |-> IdleReq]
    /\ WorkerInit
    /\ DeliveryInit
    /\ ClientInit
    /\ IngressInit
    /\ StorageInit
    /\ plan = NoPlan

(***************************************************************************)
(* startUpload                                                             *)
(***************************************************************************)
\* uuidv4(): an id no session had before
FreshIds(s) ==
    { sid \in SessionIds :
        /\ s.sessions[sid] = NoSession
        /\ \A t \in SessionIds : t < sid => s.sessions[t] # NoSession }

\* lines 110-149: validation, session object, mkdir issued
StartUploadBegin(s, r, filename, fileSize, chunkSize, sessionId) ==
    LET t == [s EXCEPT !.reqs[r] =
                 [IdleReq EXCEPT
                    !.kind = "start",
                    !.body = [filename |-> filename, fileSize |-> fileSize]]]
    IN
    IF fileSize = 0 THEN Answer(t, r, 400)
    ELSE IF ~isValidVideoFile(filename, AllowedExtensions)
    THEN Answer(t, r, 400)
    ELSE IF fileSize > MaxFileSize THEN Answer(t, r, 400)
    ELSE [t EXCEPT
            !.sessions[sessionId] =
                [filename |-> filename, fileSize |-> fileSize,
                 chunkSize |-> chunkSize, uploadedChunks |-> <<>>,
                 uploadedSize |-> 0, movieInfo |-> parseMovieInfo(filename),
                 expiresAt |-> s.now + SessionTimeout],
            !.reqs[r] = [@ EXCEPT !.sid = sessionId, !.pc = "mkdir"]]

\* lines 149-155: the temp directory exists, the session is stored in the
\* Map, the INSERT is issued
StartUploadMkdir(s, r) ==
    LET sid == s.reqs[r].sid IN
    Await([s EXCEPT !.tempDirs[sid] = IF @.exists THEN @ ELSE EmptyDir,
                    !.uploadSessions = @ \cup {sid}],
          r, "createUploadSession")

\* Database.createUploadSession: INSERT INTO upload_sessions
createUploadSession(rows, sessionData) ==
    [rows EXCEPT ![sessionData.id] =
        [total_size |-> sessionData.total_size, uploaded_size |-> 0,
         chunk_size |-> sessionData.chunk_size, status |-> "active",
         movie_id |-> 0, expires_at |-> sessionData.expires_at]]

\* lines 155-170: the row is saved, the client gets its session id
StartUploadCreateUploadSession(s, r) ==
    LET sid     == s.reqs[r].sid
        session == s.sessions[sid]
    IN Answer([s EXCEPT
                 !.dbSessions = createUploadSession(@,
                     [id |-> sid, total_size |-> session.fileSize,
                      chunk_size |-> session.chunkSize,
                      expires_at |-> session.expiresAt]),
                 !.clientIds = @ \cup {sid}],
              r, 200)

(***************************************************************************)
(* uploadChunk                                                             *)
(***************************************************************************)
\* new Date() > session.expiresAt
Expired(s, session) == s.now > session.expiresAt

\* lines 187-200: lookup, expiry check, writeFile issued
\* variant: the deadline of the session is not looked at
UploadChunkBeginNoDeadline(s, r, sessionId, chunkIndex) ==
    LET t == [s EXCEPT !.reqs[r] =
                [IdleReq EXCEPT !.kind = "chunk", !.sid = sessionId,
                                !.idx = chunkIndex]]
    IN IF sessionId \notin s.uploadSessions THEN Answer(t, r, 404)
       ELSE Await(t, r, "writeFile")

UploadChunkBegin(s, r, sessionId, chunkIndex) ==
    LET t == [s EXCEPT !.reqs[r] =
                [IdleReq EXCEPT !.kind = "chunk", !.sid = sessionId,
                                !.idx = chunkIndex]]
    IN IF sessionId \notin s.uploadSessions THEN Answer(t, r, 404)
       ELSE IF Expired(s, s.sessions[sessionId])
       THEN Answer([t EXCEPT !.uploadSessions = @ \ {sessionId}], r, 410)
       ELSE Await(t, r, "writeFile")

\* fs.writeFile(chunkPath, chunk.buffer)
writeFile(dir, chunkIndex, buffer) ==
    [dir EXCEPT !.files =
        [j \in DOMAIN dir.files \cup {chunkIndex} |->
            IF j = chunkIndex THEN buffer ELSE dir.files[j]]]

\* variant: an accepted chunk moves the deadline of the session on
UploadChunkWriteFileExtends(s, r) ==
    LET sid     == s.reqs[r].sid
        idx     == s.reqs[r].idx
        session == s.sessions[sid]
        chunk   == ChunkPayload(sid, session.fileSize, session.chunkSize, idx)
    IN IF ~s.tempDirs[sid].exists THEN Answer(s, r, 500)
       ELSE [s EXCEPT
               !.tempDirs[sid] = writeFile(@, idx, chunk),
               !.sessions[sid] =
                   [@ EXCEPT !.uploadedChunks = Append(@, idx),
                             !.uploadedSize = @ + Len(chunk),
                             !.expiresAt = s.now + SessionTimeout],
               !.reqs[r] = [@ EXCEPT !.pc = "updateUploadSession",
                                     !.val = session.uploadedSize + Len(chunk)]]

\* lines 200-207: the chunk file is written (ENOENT without the directory),
\* the session is updated, the row update is issued with the new size
UploadChunkWriteFile(s, r) ==
    LET sid     == s.reqs[r].sid
        idx     == s.reqs[r].idx
        session == s.sessions[sid]
        chunk   == ChunkPayload(sid, session.fileSize, session.chunkSize, idx)
    IN IF ~s.tempDirs[sid].exists THEN Answer(s, r, 500)
       ELSE [s EXCEPT
               !.tempDirs[sid] = writeFile(@, idx, chunk),
               !.sessions[sid] =
                   [@ EXCEPT !.uploadedChunks = Append(@, idx),
                             !.uploadedSize = @ + Len(chunk)],
               !.reqs[r] = [@ EXCEPT !.pc = "updateUploadSession",
                                     !.val = session.uploadedSize + Len(chunk)]]

\* lines 207-218: UPDATE upload_sessions SET uploaded_size; the answer carries
\* the session's uploadedSize as it is now
UploadChunkUpdateUploadSession(s, r) ==
    LET sid == s.reqs[r].sid IN
    Answer([s EXCEPT
              !.dbSessions[sid] = IF @ = NoRow THEN @
                                  ELSE [@ EXCEPT !.uploaded_size = s.reqs[r].val],
              !.reqs[r].val = s.sessions[sid].uploadedSize],
           r, 200)

(***************************************************************************)
(* completeUpload                                                          *)
(***************************************************************************)
\* path.join(config.storage.mediaPath, generateMovieDir(title, year))
MoviePath(session) ==
    generateMovieDir(session.movieInfo.title, session.movieInfo.year)

\* lines 230-251: lookup, chunk count check, sort, movie directory made,
\* fs.open(finalPath, 'w') issued
CompleteUploadBegin(s, r, sessionId) ==
    LET t == [s EXCEPT !.reqs[r] =
                [IdleReq EXCEPT !.kind = "complete", !.sid = sessionId]]
    IN IF sessionId \notin s.uploadSessions THEN Answer(t, r, 404)
       ELSE IF Len(s.sessions[sessionId].uploadedChunks) #
                 TotalChunks(s.sessions[sessionId].fileSize,
                             s.sessions[sessionId].chunkSize)
       THEN Answer(t, r, 400)
       ELSE Await([t EXCEPT !.sessions[sessionId].uploadedChunks =
                                SortChunks(@)],
                  r, "open")

\* line 251: movie.mp4 is created or truncated; the loop starts at chunk_0
CompleteUploadOpen(s, r) ==
    [s EXCEPT !.mediaFiles[MoviePath(s.sessions[s.reqs[r].sid])] = <<>>,
              !.reqs[r] = [@ EXCEPT !.pc = "readFile", !.i = 0, !.pos = 0]]

\* line 255: fs.readFile(chunk_i) (ENOENT without the file)
\* variant: a chunk file that is not there reads as empty
CompleteUploadReadFileOrEmpty(s, r) ==
    LET dir == s.tempDirs[s.reqs[r].sid] IN
    IF dir.exists /\ s.reqs[r].i \in DOMAIN dir.files
    THEN Await([s EXCEPT !.reqs[r].chunkData = dir.files[s.reqs[r].i]],
               r, "write")
    ELSE Await(s, r, "write")

CompleteUploadReadFile(s, r) ==
    LET dir == s.tempDirs[s.reqs[r].sid] IN
    IF dir.exists /\ s.reqs[r].i \in DOMAIN dir.files
    THEN Await([s EXCEPT !.reqs[r].chunkData = dir.files[s.reqs[r].i]],
               r, "write")
    ELSE Answer(s, r, 500)

\* lines 256-262: the chunk is written at the handle's position; after the
\* last chunk the file is closed and the INSERT INTO movies is issued
CompleteUploadWrite(s, r) ==
    LET sid       == s.reqs[r].sid
        session   == s.sessions[sid]
        chunkData == s.reqs[r].chunkData
        last      == s.reqs[r].i + 1 >=
                        TotalChunks(session.fileSize, session.chunkSize)
    IN [s EXCEPT
          !.mediaFiles[MoviePath(session)] =
              WriteAt(IF @ = NoFile THEN <<>> ELSE @, s.reqs[r].pos, chunkData),
          !.reqs[r] = [@ EXCEPT
                         !.pc = IF last THEN "createMovie" ELSE "readFile",
                         !.i = @ + 1, !.pos = @ + Len(chunkData),
                         !.chunkData = <<>>]]

\* Database.createMovie: INSERT INTO movies (...) VALUES (..., 'uploading')
createMovie(rows, movieData) ==
    Append(rows, [path |-> movieData.path, filename |-> movieData.filename,
                  file_size |-> movieData.file_size, status |-> "uploading"])

\* schema.sql line 7: path TEXT NOT NULL UNIQUE
PathTaken(rows, path) == \E m \in 1..Len(rows) : rows[m].path = path

\* variant: the temp directory is removed before the movie row is inserted
CompleteUploadCreateMovieRmFirst(s, r) ==
    LET session == s.sessions[s.reqs[r].sid]
        t       == [s EXCEPT !.tempDirs[s.reqs[r].sid] = NoDir]
    IN IF PathTaken(s.movies, MoviePath(session)) THEN Answer(t, r, 500)
       ELSE [t EXCEPT
               !.movies = createMovie(@, [path |-> MoviePath(session),
                                          filename |-> session.filename,
                                          file_size |-> session.fileSize]),
               !.reqs[r] = [@ EXCEPT !.pc = "queueAdd",
                                     !.movieId = Len(s.movies) + 1]]

\* lines 262-271: the movie row is inserted (the INSERT is rejected on a path
\* that has a row), mediaQueue.add is issued
CompleteUploadCreateMovie(s, r) ==
    LET session == s.sessions[s.reqs[r].sid] IN
    IF PathTaken(s.movies, MoviePath(session)) THEN Answer(s, r, 500)
    ELSE [s EXCEPT
            !.movies = createMovie(@, [path |-> MoviePath(session),
                                       filename |-> session.filename,
                                       file_size |-> session.fileSize]),
            !.reqs[r] = [@ EXCEPT !.pc = "queueAdd",
                                  !.movieId = Len(s.movies) + 1]]

\* lines 271-281: the job is in the queue, the status update is issued
CompleteUploadQueueAdd(s, r) ==
    Await([s EXCEPT !.queue =
             Append(@, [movieId |-> s.reqs[r].movieId,
                        moviePath |-> MoviePath(s.sessions[s.reqs[r].sid])])],
          r, "updateMovie")

\* lines 281-284: UPDATE movies SET status = 'processing'; fs.rm issued
CompleteUploadUpdateMovie(s, r) ==
    Await([s EXCEPT !.movies[s.reqs[r].movieId].status = "processing"],
          r, "rm")

\* lines 284-288: the temp directory is removed, the session is deleted from
\* the Map, the row update is issued
CompleteUploadRm(s, r) ==
    Await([s EXCEPT !.tempDirs[s.reqs[r].sid] = NoDir,
                    !.uploadSessions = @ \ {s.reqs[r].sid}],
          r, "updateUploadSession")

\* lines 288-301: UPDATE upload_sessions SET status = 'completed', movie_id
CompleteUploadUpdateUploadSession(s, r) ==
    Answer([s EXCEPT !.dbSessions[s.reqs[r].sid] =
              IF @ = NoRow THEN @
              ELSE [@ EXCEPT !.status = "completed",
                             !.movie_id = s.reqs[r].movieId]],
           r, 200)

(***************************************************************************)
(* cancelUpload                                                            *)
(***************************************************************************)
\* the methods class Database defines
DatabaseMethods ==
    {"initialize", "runSchema", "createMovie", "updateMovie", "getMovie",
     "getAllMovies", "deleteMovie", "createUploadSession", "getUploadSession",
     "updateUploadSession", "cleanupExpiredSessions", "close"}

\* lines 317-327: lookup, the session is deleted from the Map, rmdir issued
\* variant: the session stays in the Map
CancelUploadBeginKeepsSession(s, r, sessionId) ==
    LET t == [s EXCEPT !.reqs[r] =
                [IdleReq EXCEPT !.kind = "cancel", !.sid = sessionId]]
    IN IF sessionId \notin s.uploadSessions THEN Answer(t, r, 404)
       ELSE Await([t EXCEPT !.cancelled = @ \cup {sessionId}], r, "rmdir")

CancelUploadBegin(s, r, sessionId) ==
    LET t == [s EXCEPT !.reqs[r] =
                [IdleReq EXCEPT !.kind = "cancel", !.sid = sessionId]]
    IN IF sessionId \notin s.uploadSessions THEN Answer(t, r, 404)
       ELSE Await([t EXCEPT !.uploadSessions = @ \ {sessionId},
                            !.cancelled = @ \cup {sessionId}],
                  r, "rmdir")

\* lines 327-341: the temp directory is removed; this.db.deleteUploadSession
\* is called, a TypeError when Database has no such method, caught at 338
CancelUploadRmdir(s, r) ==
    LET sid == s.reqs[r].sid
        t   == [s EXCEPT !.tempDirs[sid] = NoDir]
    IN IF "deleteUploadSession" \in DatabaseMethods
       THEN Answer([t EXCEPT !.dbSessions[sid] = NoRow], r, 200)
       ELSE Answer(t, r, 500)

(***************************************************************************)
(* The sweep and the clock                                                 *)
(***************************************************************************)
ExpiredSessions(s) ==
    { sid \in s.uploadSessions : Expired(s, s.sessions[sid]) }

\* startSessionCleanup, lines 28-40: the timer callback deletes the expired
\* sessions from the Map and issues their rmdir without awaiting it
SessionCleanup(s) ==
    [s EXCEPT !.uploadSessions = @ \ ExpiredSessions(s),
              !.pendingRmdir = @ \cup ExpiredSessions(s),
              !.swept = @ \cup ExpiredSessions(s)]

\* line 35: fs.rmdir(session.tempDir, { recursive: true }) completes
SessionCleanupRmdir(s, sid) ==
    [s EXCEPT !.tempDirs[sid] = NoDir, !.pendingRmdir = @ \ {sid}]

\* every rmdir the sweep issued has completed
RECURSIVE SessionCleanupRmdirAll(_)
SessionCleanupRmdirAll(s) ==
    IF s.pendingRmdir = {} THEN s
    ELSE SessionCleanupRmdirAll(
            SessionCleanupRmdir(s, CHOOSE sid \in s.pendingRmdir : TRUE))

(***************************************************************************)
(* Running the handlers                                                    *)
(***************************************************************************)
\* the awaited operation of slot r completes and its handler runs on to its
\* next await or to its answer
Step(s, r) ==
    CASE At(s, r, "start", "mkdir") -> StartUploadMkdir(s, r)
      [] At(s, r, "start", "createUploadSession") ->
            StartUploadCreateUploadSession(s, r)
      [] At(s, r, "chunk", "writeFile") -> UploadChunkWriteFile(s, r)
      [] At(s, r, "chunk", "updateUploadSession") ->
            UploadChunkUpdateUploadSession(s, r)
      [] At(s, r, "complete", "open") -> CompleteUploadOpen(s, r)
      [] At(s, r, "complete", "readFile") -> CompleteUploadReadFile(s, r)
      [] At(s, r, "complete", "write") -> CompleteUploadWrite(s, r)
      [] At(s, r, "complete", "createMovie") -> CompleteUploadCreateMovie(s, r)
      [] At(s, r, "complete", "queueAdd") -> CompleteUploadQueueAdd(s, r)
      [] At(s, r, "complete", "updateMovie") -> CompleteUploadUpdateMovie(s, r)
      [] At(s, r, "complete", "rm") -> CompleteUploadRm(s, r)
      [] At(s, r, "complete", "updateUploadSession") ->
            CompleteUploadUpdateUploadSession(s, r)
      [] At(s, r, "cancel", "rmdir") -> CancelUploadRmdir(s, r)
      [] OTHER -> s

\* the handler of slot r runs to its answer with nothing in between
RECURSIVE Run(_, _)
Run(s, r) == IF s.reqs[r].pc \in {"idle", "done"} THEN s ELSE Run(Step(s, r), r)

\* a session object that is in the Map or that a handler holds
Referenced(s, sid) ==
    \/ sid \in s.uploadSessions
    \/ \E r \in Slots : s.reqs[r].pc # "idle" /\ s.reqs[r].sid = sid

\* session objects nothing refers to are garbage: nothing reads them again
Collect(s) ==
    [s EXCEPT !.sessions =
        [sid \in SessionIds |->
            IF @[sid] # NoSession /\ ~Referenced(s, sid) THEN Collected
            ELSE @[sid]]]

\* the chunk indexes a client sends to a session: those of the plan and the
\* one after them
ChunkIndexes(s, sid) ==
    IF sid \in s.uploadSessions
    THEN 0..TotalChunks(s.sessions[sid].fileSize, s.sessions[sid].chunkSize)
    ELSE {0}

\* the session ids a client can name: those it was given, and a wrong one
RequestIds(s) == s.clientIds \cup {UnknownId}

\* the model stops sending chunks to a session whose array is at its cap
BelowCap(s, sid) ==
    (sid \in s.uploadSessions /\ ~Expired(s, s.sessions[sid]))
        => Len(s.sessions[sid].uploadedChunks) < MaxAccepted

\* no handler is running and no rmdir of the sweep is outstanding
Idle == pendingRmdir = {} /\ \A r \in Slots : reqs[r].pc = "idle"

(***************************************************************************)
(* Spec: one request at a time                                             *)
(***************************************************************************)
startUpload ==
    /\ Idle
    /\ \E filename \in Filenames, fileSize \in FileSizes,
          chunkSize \in ChunkSizes, sessionId \in FreshIds(State) :
         Becomes(Run(StartUploadBegin(State, 1, filename, fileSize, chunkSize,
                                      sessionId), 1))

uploadChunk ==
    /\ Idle
    /\ \E sessionId \in RequestIds(State) :
         /\ BelowCap(State, sessionId)
         /\ \E chunkIndex \in ChunkIndexes(State, sessionId) :
              Becomes(Run(UploadChunkBegin(State, 1, sessionId, chunkIndex), 1))

completeUpload ==
    /\ Idle
    /\ \E sessionId \in RequestIds(State) :
         Becomes(Run(CompleteUploadBegin(State, 1, sessionId), 1))

cancelUpload ==
    /\ Idle
    /\ \E sessionId \in RequestIds(State) :
         Becomes(Run(CancelUploadBegin(State, 1, sessionId), 1))

\* the answer of slot r is sent and the slot is free again
Respond(r) ==
    /\ reqs[r].pc = "done"
    /\ Becomes(Collect([State EXCEPT !.reqs[r] = IdleReq]))

startSessionCleanup ==
    /\ Idle
    /\ ExpiredSessions(State) # {}
    /\ Becomes(Collect(SessionCleanupRmdirAll(SessionCleanup(State))))

Tick ==
    /\ now + TickHours <= MaxNow
    /\ now' = now + TickHours
    /\ UNCHANGED <<sessions, uploadSessions, tempDirs, dbSessions, movies,
                   mediaFiles, queue, pendingRmdir, clientIds, cancelled,
                   swept, reqs>>
    /\ UNCHANGED <<workerVars, deliveryVars, clientVars, ingressVars, storageVars, plan>>

Next ==
    \/ startUpload
    \/ uploadChunk
    \/ completeUpload
    \/ cancelUpload
    \/ \E r \in Slots : Respond(r)
    \/ startSessionCleanup
    \/ Idle /\ Tick

Spec == Init /\ [][Next]_vars

(***************************************************************************)
(* SpecConc: requests of one session handled concurrently                  *)
(***************************************************************************)
\* a request is taken into the lowest free slot
Accepts(r) ==
    /\ reqs[r].pc = "idle"
    /\ \A q \in Slots : q < r => reqs[q].pc # "idle"

\* the one session of SpecConc
ConcSessionIds == {1}

StartUploadRequest(r) ==
    /\ Accepts(r)
    /\ \E filename \in Filenames, fileSize \in FileSizes,
          chunkSize \in ChunkSizes,
          sessionId \in FreshIds(State) \cap ConcSessionIds :
         Becomes(StartUploadBegin(State, r, filename, fileSize, chunkSize,
                                  sessionId))

UploadChunkRequest(r) ==
    /\ Accepts(r)
    /\ \E sessionId \in RequestIds(State) :
         /\ BelowCap(State, sessionId)
         /\ \E chunkIndex \in ChunkIndexes(State, sessionId) :
              Becomes(UploadChunkBegin(State, r, sessionId, chunkIndex))

CompleteUploadRequest(r) ==
    /\ Accepts(r)
    /\ \E sessionId \in RequestIds(State) :
         Becomes(CompleteUploadBegin(State, r, sessionId))

CancelUploadRequest(r) ==
    /\ Accepts(r)
    /\ \E sessionId \in RequestIds(State) :
         Becomes(CancelUploadBegin(State, r, sessionId))

\* the awaited operation of the start, chunk, complete or cancel request in
\* slot r completes
StartUploadStep(r) ==
    reqs[r].kind = "start" /\ reqs[r].pc \notin {"idle", "done"}
        /\ Becomes(Step(State, r))

UploadChunkStep(r) ==
    reqs[r].kind = "chunk" /\ reqs[r].pc \notin {"idle", "done"}
        /\ Becomes(Step(State, r))

CompleteUploadStep(r) ==
    reqs[r].kind = "complete" /\ reqs[r].pc \notin {"idle", "done"}
        /\ Becomes(Step(State, r))

CancelUploadStep(r) ==
    reqs[r].kind = "cancel" /\ reqs[r].pc \notin {"idle", "done"}
        /\ Becomes(Step(State, r))

\* the timer callback of the sweep runs
SessionCleanupTimer ==
    /\ ExpiredSessions(State) # {}
    /\ Becomes(SessionCleanup(State))

\* a rmdir the sweep issued completes
SessionCleanupRmdirDone ==
    \E sid \in pendingRmdir : Becomes(Collect(SessionCleanupRmdir(State, sid)))

NextConc ==
    \/ \E r \in Slots : StartUploadRequest(r)
    \/ \E r \in Slots : UploadChunkRequest(r)
    \/ \E r \in Slots : CompleteUploadRequest(r)
    \/ \E r \in Slots : CancelUploadRequest(r)
    \/ \E r \in Slots : StartUploadStep(r)
    \/ \E r \in Slots : UploadChunkStep(r)
    \/ \E r \in Slots : CompleteUploadStep(r)
    \/ \E r \in Slots : CancelUploadStep(r)
    \/ \E r \in Slots : Respond(r)
    \/ SessionCleanupTimer
    \/ SessionCleanupRmdirDone
    \/ Tick

SpecConc == Init /\ [][NextConc]_vars

(***************************************************************************)
(* MediaWorker (server.js 500-685) and mediaQueue (mediaQueue.js 1-39).    *)
(* SpecWorker follows completeUpload from the insert of the movie row on   *)
(* (the rest of the upload server stays as Init leaves it) and the worker  *)
(* process, cut at the awaits of processMovie. The queue is Bull's: jobs   *)
(* wait in the order they were added, process(name, n, handler) runs at    *)
(* most n handlers at a time, a job whose handler throws is delayed and    *)
(* run again until it has been attempted attempts times.                   *)
(***************************************************************************)
\* config.processing.maxConcurrentJobs
MaxConcurrentJobs == 2
\* attempts of mediaQueue.add in completeUpload
Attempts == 3
\* what ffprobe reports for a movie file it can read, in seconds
Metadata == [duration |-> 90]
\* messages of the errors ffprobe and ffmpeg reject with
ErrorMessages == {"ffmpeg exited with code 1"}

\* Database.updateMovie: UPDATE movies SET <fields> WHERE id = ?
updateMovie(rows, id, updates) ==
    [rows EXCEPT ![id] =
        [f \in DOMAIN rows[id] |->
            IF f \in DOMAIN updates THEN updates[f] ELSE rows[id][f]]]

Count(f, P(_)) == Cardinality({x \in DOMAIN f : P(f[x])})
IsRow(a) == a.status # "none"
IsJob(j) == j.state # "none"
IsActive(j) == j.state = "active"

\* server.js 262-271: the INSERT INTO movies is done (status 'uploading',
\* lastID the next row id), mediaQueue.add is issued
CompletionCreateMovie(u) ==
    /\ completions[u].pc = "idle"
    /\ \A v \in Uploads : v < u => completions[v].pc # "idle"
    /\ LET movieId == Count(assets, IsRow) + 1 IN
       /\ assets' = [assets EXCEPT ![movieId] =
                        [NoAsset EXCEPT !.status = "uploading"]]
       /\ completions' = [completions EXCEPT ![u] =
                             [pc |-> "queueAdd", movieId |-> movieId]]
    /\ UNCHANGED <<jobs, waitList, uploadVars, deliveryVars, clientVars, ingressVars, storageVars, plan>>

\* server.js 271-281: the job is added at the end of the wait list, the
\* UPDATE to 'processing' is issued
CompletionQueueAdd(u) ==
    /\ completions[u].pc = "queueAdd"
    /\ LET jobId == Count(jobs, IsJob) + 1 IN
       /\ jobs' = [jobs EXCEPT ![jobId] =
                      [NoJob EXCEPT !.state = "wait",
                                    !.movieId = completions[u].movieId]]
       /\ waitList' = Append(waitList, jobId)
    /\ completions' = [completions EXCEPT ![u].pc = "updateMovie"]
    /\ UNCHANGED <<assets, uploadVars, deliveryVars, clientVars, ingressVars, storageVars, plan>>

\* server.js 281: UPDATE movies SET status = 'processing' is done
CompletionUpdateMovie(u) ==
    /\ completions[u].pc = "updateMovie"
    /\ assets' = updateMovie(assets, completions[u].movieId,
                             [status |-> "processing"])
    /\ completions' = [completions EXCEPT ![u].pc = "done"]
    /\ UNCHANGED <<jobs, waitList, uploadVars, deliveryVars, clientVars, ingressVars, storageVars, plan>>

\* variant: handlers are started without counting the running ones
StartJobUncapped ==
    /\ waitList # <<>>
    /\ jobs' = [jobs EXCEPT ![Head(waitList)] =
                   [@ EXCEPT !.state = "active", !.pc = "getVideoMetadata"]]
    /\ waitList' = Tail(waitList)
    /\ UNCHANGED <<assets, completions, uploadVars, deliveryVars, clientVars, ingressVars, storageVars, plan>>

\* variant: the job added last is started first
StartJobNewestFirst ==
    /\ waitList # <<>>
    /\ Count(jobs, IsActive) < MaxConcurrentJobs
    /\ jobs' = [jobs EXCEPT ![waitList[Len(waitList)]] =
                   [@ EXCEPT !.state = "active", !.pc = "getVideoMetadata"]]
    /\ waitList' = SubSeq(waitList, 1, Len(waitList) - 1)
    /\ UNCHANGED <<assets, completions, uploadVars, deliveryVars, clientVars, ingressVars, storageVars, plan>>

\* server.js 514: the queue starts processMovie for the job at the head of
\* the wait list while fewer than maxConcurrentJobs handlers run; the handler
\* runs to its first await (lines 520-527)
StartJob ==
    /\ waitList # <<>>
    /\ Count(jobs, IsActive) < MaxConcurrentJobs
    /\ jobs' = [jobs EXCEPT ![Head(waitList)] =
                   [@ EXCEPT !.state = "active", !.pc = "getVideoMetadata"]]
    /\ waitList' = Tail(waitList)
    /\ UNCHANGED <<assets, completions, uploadVars, deliveryVars, clientVars, ingressVars, storageVars, plan>>

\* the awaited call of job j rejects (its movie file is one ffprobe and
\* ffmpeg may fail on): the catch block issues its UPDATE
Rejects(j) ==
    /\ jobs[j].movieId \in FlakyMovies
    /\ \E message \in ErrorMessages :
          jobs' = [jobs EXCEPT ![j] = [@ EXCEPT !.pc = "updateMovieError",
                                                !.error = message]]

\* server.js 527-533: ffprobe answers, the duration UPDATE is issued
GetVideoMetadata(j) ==
    /\ IsActive(jobs[j]) /\ jobs[j].pc = "getVideoMetadata"
    /\ \/ jobs' = [jobs EXCEPT ![j].pc = "updateMovie"]
       \/ Rejects(j)
    /\ UNCHANGED <<assets, waitList, completions, uploadVars, deliveryVars, clientVars, ingressVars, storageVars, plan>>

\* server.js 531-539: the duration is stored, generatePoster is started
UpdateMovieDuration(j) ==
    /\ IsActive(jobs[j]) /\ jobs[j].pc = "updateMovie"
    /\ assets' = updateMovie(assets, jobs[j].movieId,
                             [duration |-> Metadata.duration])
    /\ jobs' = [jobs EXCEPT ![j].pc = "generatePoster"]
    /\ UNCHANGED <<waitList, completions, uploadVars, deliveryVars, clientVars, ingressVars, storageVars, plan>>

\* server.js 539-547: the poster is written, generateHLS is started
GeneratePoster(j) ==
    /\ IsActive(jobs[j]) /\ jobs[j].pc = "generatePoster"
    /\ \/ jobs' = [jobs EXCEPT ![j].pc = "generateHLS"]
       \/ Rejects(j)
    /\ UNCHANGED <<assets, waitList, completions, uploadVars, deliveryVars, clientVars, ingressVars, storageVars, plan>>

\* server.js 544-557: the playlist is written, the UPDATE to 'ready' is issued
GenerateHLS(j) ==
    /\ IsActive(jobs[j]) /\ jobs[j].pc = "generateHLS"
    /\ \/ jobs' = [jobs EXCEPT ![j].pc = "updateMovieReady"]
       \/ Rejects(j)
    /\ UNCHANGED <<assets, waitList, completions, uploadVars, deliveryVars, clientVars, ingressVars, storageVars, plan>>

\* server.js 552-567: status 'ready' is stored, the handler returns and the
\* queue marks the job completed
UpdateMovieReady(j) ==
    /\ IsActive(jobs[j]) /\ jobs[j].pc = "updateMovieReady"
    /\ assets' = updateMovie(assets, jobs[j].movieId,
                             [status |-> "ready",
                              poster_path |-> "poster.jpg",
                              hls_path |-> "hls/playlist.m3u8"])
    /\ jobs' = [jobs EXCEPT ![j] = [@ EXCEPT !.state = "completed",
                                             !.pc = "idle"]]
    /\ UNCHANGED <<waitList, completions, uploadVars, deliveryVars, clientVars, ingressVars, storageVars, plan>>

\* variant: a job whose handler throws is delayed whatever its attempts
UpdateMovieErrorRetriesOn(j) ==
    /\ IsActive(jobs[j]) /\ jobs[j].pc = "updateMovieError"
    /\ assets' = updateMovie(assets, jobs[j].movieId,
                             [status |-> "error",
                              error_message |-> jobs[j].error])
    /\ jobs' = [jobs EXCEPT ![j] =
                   [@ EXCEPT !.state = "delayed", !.attemptsMade = @ + 1,
                             !.pc = "idle", !.error = ""]]
    /\ UNCHANGED <<waitList, completions, uploadVars, deliveryVars, clientVars, ingressVars, storageVars, plan>>

\* server.js 569-579: status 'error' and error.message are stored, the
\* handler rethrows; the queue counts the attempt and either delays the job
\* for its backoff or, after the last attempt, marks it failed
UpdateMovieError(j) ==
    /\ IsActive(jobs[j]) /\ jobs[j].pc = "updateMovieError"
    /\ assets' = updateMovie(assets, jobs[j].movieId,
                             [status |-> "error",
                              error_message |-> jobs[j].error])
    /\ jobs' = [jobs EXCEPT ![j] =
                   [@ EXCEPT !.state = IF jobs[j].attemptsMade + 1 < Attempts
                                       THEN "delayed" ELSE "failed",
                             !.attemptsMade = @ + 1,
                             !.pc = "idle", !.error = ""]]
    /\ UNCHANGED <<waitList, completions, uploadVars, deliveryVars, clientVars, ingressVars, storageVars, plan>>

\* mediaQueue.js 15-18: the backoff delay of job j is over, the job waits
\* again (at either end of the wait list)
BackoffOver(j) ==
    /\ jobs[j].state = "delayed"
    /\ jobs' = [jobs EXCEPT ![j].state = "wait"]
    /\ \/ waitList' = Append(waitList, j)
       \/ waitList' = <<j>> \o waitList
    /\ UNCHANGED <<assets, completions, uploadVars, deliveryVars, clientVars, ingressVars, storageVars, plan>>

NextWorker ==
    \/ \E u \in Uploads : CompletionCreateMovie(u)
    \/ \E u \in Uploads : CompletionQueueAdd(u)
    \/ \E u \in Uploads : CompletionUpdateMovie(u)
    \/ StartJob
    \/ \E j \in Uploads : GetVideoMetadata(j)
    \/ \E j \in Uploads : UpdateMovieDuration(j)
    \/ \E j \in Uploads : GeneratePoster(j)
    \/ \E j \in Uploads : GenerateHLS(j)
    \/ \E j \in Uploads : UpdateMovieReady(j)
    \/ \E j \in Uploads : UpdateMovieError(j)
    \/ \E j \in Uploads : BackoffOver(j)

SpecWorker == Init /\ [][NextWorker]_vars

(***************************************************************************)
(* Delivery: MediaServer.serveVideo and serveSegment (mediaQueue.js        *)
(* 105-262) and MediaOnlyServer.serveVideo (media-only-server.js 209-263). *)
(* Strings are sequences of one-character strings; a file is the sequence  *)
(* of its bytes.                                                           *)
(***************************************************************************)
DigitChars == <<"0", "1", "2", "3", "4", "5", "6", "7", "8", "9">>
BytesEq == <<"b", "y", "t", "e", "s", "=">>
BytesSp == <<"b", "y", "t", "e", "s", " ">>
DotTs == <<".", "t", "s">>

\* template literal `${n}` of a number n >= 0
RECURSIVE NumberToString(_)
NumberToString(n) ==
    IF n < 10 THEN <<DigitChars[n + 1]>>
    ELSE NumberToString(n \div 10) \o <<DigitChars[(n % 10) + 1]>>

IsDigit(c) == \E d \in 1..10 : DigitChars[d] = c
DigitValue(c) == (CHOOSE d \in 1..10 : DigitChars[d] = c) - 1
NaN == -1

RECURSIVE ParseDigits(_, _)
ParseDigits(str, acc) ==
    IF str = <<>> \/ ~IsDigit(Head(str)) THEN acc
    ELSE ParseDigits(Tail(str), 10 * acc + DigitValue(Head(str)))

\* variant: only the first digit is read
parseIntOneDigit(str) ==
    IF str = <<>> \/ ~IsDigit(Head(str)) THEN NaN
    ELSE DigitValue(Head(str))

\* parseInt(str, 10) on a string without sign or leading blanks: the value of
\* its leading digits, NaN without one
parseInt(str) ==
    IF str = <<>> \/ ~IsDigit(Head(str)) THEN NaN
    ELSE ParseDigits(str, 0)

\* position of the first occurrence of pat in str from position i on, or 0
RECURSIVE IndexOf(_, _, _)
IndexOf(str, pat, i) ==
    IF i + Len(pat) - 1 > Len(str) THEN 0
    ELSE IF SubSeq(str, i, i + Len(pat) - 1) = pat THEN i
    ELSE IndexOf(str, pat, i + 1)

\* str.replace(/pat/, ""): the first occurrence of pat is taken out
replace(str, pat) ==
    LET i == IndexOf(str, pat, 1) IN
    IF i = 0 THEN str
    ELSE SubSeq(str, 1, i - 1) \o SubSeq(str, i + Len(pat), Len(str))

\* str.split(sep)
RECURSIVE split(_, _)
split(str, sep) ==
    LET i == IndexOf(str, <<sep>>, 1) IN
    IF i = 0 THEN <<str>>
    ELSE <<SubSeq(str, 1, i - 1)>> \o split(SubSeq(str, i + 1, Len(str)), sep)

\* str.endsWith(suffix)
endsWith(str, suffix) ==
    /\ Len(str) >= Len(suffix)
    /\ SubSeq(str, Len(str) - Len(suffix) + 1, Len(str)) = suffix

\* res.status(status).json({ error })
JsonResponse(status, error) ==
    [NoResponse EXCEPT !.status = status, !.json = error]

\* mediaQueue.js 111-158 (the same code at 216-261 and at
\* media-only-server.js 215-262): the answer to a GET for a file, given the
\* Range header (<<>> without one); fs.createReadStream throws on a start
\* that is NaN and on start > end, and the catch answers 500
RangeResponse(exists, content, range, contentType, notFound, failed) ==
    IF ~exists THEN JsonResponse(404, notFound)
    ELSE
    LET fileSize == Len(content) IN
    IF range # <<>>
    THEN LET parts     == split(replace(range, BytesEq), "-")
             start     == parseInt(parts[1])
             end       == IF Len(parts) >= 2 /\ parts[2] # <<>>
                          THEN parseInt(parts[2]) ELSE fileSize - 1
             chunksize == (end - start) + 1
         IN IF start >= fileSize \/ end >= fileSize
            THEN JsonResponse(416, "Range not satisfiable")
            ELSE IF start = NaN \/ start > end THEN JsonResponse(500, failed)
            ELSE [status |-> 206,
                  contentRange |-> BytesSp \o NumberToString(start) \o <<"-">> \o
                                   NumberToString(end) \o <<"/">> \o
                                   NumberToString(fileSize),
                  contentLength |-> chunksize,
                  acceptRanges |-> "bytes",
                  contentType |-> contentType,
                  json |-> "",
                  body |-> SubSeq(content, start + 1, end + 1)]
    ELSE [status |-> 200, contentRange |-> <<>>, contentLength |-> fileSize,
          acceptRanges |-> "bytes", contentType |-> contentType, json |-> "",
          body |-> content]

\* the files on disk: none, or one of 0..MaxVideoLen bytes
Files ==
    {[exists |-> FALSE, content |-> <<>>]} \cup
    {[exists |-> TRUE, content |-> [i \in 1..n |-> i]] : n \in 0..MaxVideoLen}

\* the Range headers a player sends: none, "bytes=<start>-",
\* "bytes=<start>-<end>", or "bytes=-<end>"
RangeRequests ==
    {[range |-> <<>>, start |-> 0, hasEnd |-> FALSE, end |-> 0]} \cup
    {[range |-> BytesEq \o NumberToString(a) \o <<"-">>,
      start |-> a, hasEnd |-> FALSE, end |-> 0] : a \in 0..(MaxVideoLen + 1)}
    \cup
    {[range |-> BytesEq \o NumberToString(a) \o <<"-">> \o NumberToString(b),
      start |-> a, hasEnd |-> TRUE, end |-> b] :
         a \in 0..(MaxVideoLen + 1), b \in 0..(MaxVideoLen + 1)}
    \cup
    {[range |-> BytesEq \o <<"-">> \o NumberToString(b),
      start |-> NaN, hasEnd |-> TRUE, end |-> b] : b \in 0..(MaxVideoLen + 1)}

Segments == {<<"0", ".", "t", "s">>, <<"0", ".", "m", "p", "4">>}

Delivered(handler, file, req, response) ==
    /\ delivery = NoDelivery
    /\ delivery' = [handler |-> handler, exists |-> file.exists,
                 content |-> file.content, range |-> req.range,
                 start |-> req.start, hasEnd |-> req.hasEnd, end |-> req.end,
                 response |-> response]

\* MediaServer.serveVideo
serveVideo ==
    /\ \E file \in Files, req \in RangeRequests :
          Delivered("serveVideo", file, req,
                    RangeResponse(file.exists, file.content, req.range,
                                  "video/mp4", "Video file not found",
                                  "Failed to serve video"))
    /\ UNCHANGED <<uploadVars, workerVars, clientVars,
                   ingressVars, storageVars, plan>>

\* MediaServer.serveSegment
serveSegment ==
    /\ \E file \in Files, req \in RangeRequests, segment \in Segments :
          Delivered("serveSegment", file, req,
                    IF ~endsWith(segment, DotTs)
                    THEN JsonResponse(400, "Invalid segment file")
                    ELSE RangeResponse(file.exists, file.content, req.range,
                                       "video/mp2t", "Segment not found",
                                       "Failed to serve segment"))
    /\ UNCHANGED <<uploadVars, workerVars, clientVars,
                   ingressVars, storageVars, plan>>

\* MediaOnlyServer.serveVideo
mediaOnlyServeVideo ==
    /\ \E file \in Files, req \in RangeRequests :
          Delivered("mediaOnlyServeVideo", file, req,
                    RangeResponse(file.exists, file.content, req.range,
                                  "video/mp4", "Video file not found",
                                  "Failed to serve video"))
    /\ UNCHANGED <<uploadVars, workerVars, clientVars,
                   ingressVars, storageVars, plan>>

\* the response has gone out; the servers keep nothing of the request
ResponseSent ==
    /\ delivery # NoDelivery
    /\ delivery' = NoDelivery
    /\ UNCHANGED <<uploadVars, workerVars, clientVars,
                   ingressVars, storageVars, plan>>

NextDelivery ==
    serveVideo \/ serveSegment \/ mediaOnlyServeVideo \/ ResponseSent

SpecDelivery == Init /\ [][NextDelivery]_vars

(***************************************************************************)
(* The upload page of the browser client (src/frontend/src/pages/          *)
(* Upload.jsx, lines 5-590) and its uploadAPI (src/unnamed/part_003)       *)
(*                                                                         *)
(* One file is uploaded.  A setUploads call queues its updater: the        *)
(* updaters are pure and run in the order queued, so nextUploads holds     *)
(* the state with all of them applied; a render commits it to uploads,     *)
(* the state the buttons and the closures of the click handlers see, and   *)
(* the effect of line 11 copies it to uploadsRef.current.  A click         *)
(* handler runs to its first await and React renders before the next       *)
(* event.  uploadAPI.uploadChunk takes four parameters, so the abort       *)
(* signal Upload.jsx hands it as the fifth never reaches the request: an   *)
(* aborted controller stops no request already sent.                       *)
(***************************************************************************)
concurrency == 3
RetryLimit == 3
otherVars == <<uploadVars, workerVars, deliveryVars, ingressVars, storageVars, plan>>

\* prev.map(upload => upload.id === uploadId ? {...upload, ...updates} : upload)
updateUpload(upload, updates) ==
    IF upload.exists
    THEN [f \in DOMAIN upload |->
            IF f \in DOMAIN updates THEN updates[f] ELSE upload[f]]
    ELSE upload

\* updatedChunks.reduce((sum, chunk) => sum + (chunk.loaded || 0), 0) over
\* the chunks 0 .. n - 1
RECURSIVE totalUploaded(_, _)
totalUploaded(loaded, n) ==
    IF n = 0 THEN 0 ELSE loaded[n - 1] + totalUploaded(loaded, n - 1)

\* the progress events of a request report the bytes sent so far; progress
\* is (totalUploaded / totalSize) * 100, kept in whole percents
updateChunkProgress(upload, chunkIndex, loaded) ==
    IF upload.exists
    THEN LET updatedChunks ==
                 IF chunkIndex < upload.totalChunks
                 THEN [upload.loaded EXCEPT ![chunkIndex] = loaded]
                 ELSE upload.loaded
         IN  [upload EXCEPT
                !.loaded = updatedChunks,
                !.progress =
                    (totalUploaded(updatedChunks, upload.totalChunks) * 100)
                        \div upload.file]
    ELSE upload

markChunkUploaded(upload, chunkIndex) ==
    IF upload.exists /\ chunkIndex < upload.totalChunks
    THEN [upload EXCEPT !.uploaded = @ \cup {chunkIndex}]
    ELSE upload

\* prev.filter(upload => upload.id !== uploadId)
removeUpload(upload) == NoUpload

\* a setUploads call outside a click: the updater waits for the next render
Queued(next) ==
    /\ nextUploads' = next
    /\ UNCHANGED <<uploads, uploadsRef>>

\* a setUploads call of a click handler: React renders when the handler
\* returns, and the effect of line 11 stores the rendered state in the ref
Rendered(next) ==
    /\ nextUploads' = next
    /\ uploads' = next
    /\ uploadsRef' = next

Render ==
    /\ nextUploads # uploads
    /\ Rendered(nextUploads)
    /\ UNCHANGED <<uploadControllers, loops, transfers, upstream,
                   completeCalls, clicks, otherVars>>

\* the chunks of the batch a loop is at: chunks.slice(i, i + concurrency)
Batch(loop) ==
    { loop.chunks[k] :
        k \in (loop.i + 1)..Min(loop.i + concurrency, Len(loop.chunks)) }

\* a loop top that breaks on its own aborted signal only
StopsOnAbortOnly(l, ref) == l \in uploadControllers.aborted

\* the test at the top of both loops (lines 203-207 and 406-410); a loop's
\* AbortController carries the loop's number
Stops(l, ref) ==
    l \in uploadControllers.aborted \/ (ref.exists /\ ref.isPaused)

\* a loop at its top: it leaves (at its end or by break) for the code after
\* it, or starts the uploadChunk calls of the next batch and awaits them.
\* After the loop uploadChunks calls uploadAPI.completeUpload, and
\* continueUploadChunks calls it if every chunk of the upload its closure
\* holds is marked uploaded
Advance(l, loop, ref) ==
    IF loop.i < Len(loop.chunks) /\ ~Stops(l, ref)
    THEN [loop EXCEPT !.pc = "batch"]
    ELSE IF loop.kind = "uploadChunks" \/ loop.everyUploaded
    THEN [loop EXCEPT !.pc = "complete"]
    ELSE [loop EXCEPT !.pc = "done"]

RunLoop(l, loop, ref, sent, acked) ==
    LET next == Advance(l, loop, ref)
    IN  /\ loops' = [loops EXCEPT ![l] = next]
        /\ transfers' =
             IF next.pc = "batch"
             THEN [t \in DOMAIN sent |->
                     IF t[1] = l /\ t[2] \in Batch(next)
                     THEN [NoTransfer EXCEPT !.state = "inflight"]
                     ELSE sent[t]]
             ELSE sent
        /\ completeCalls' =
             IF next.pc = "complete"
             THEN Append(completeCalls, acked)
             ELSE completeCalls

\* a video file of n chunks is chosen: startUpload up to its await
clientStartUpload ==
    /\ ~nextUploads.exists
    /\ upstream.session = "none"
    /\ \E n \in 1..MaxChunks :
          Rendered([NoUpload EXCEPT !.exists = TRUE, !.status = "starting",
                                    !.file = n * ChunkLen])
    /\ UNCHANGED <<uploadControllers, loops, transfers, upstream,
                   completeCalls, clicks, otherVars>>

\* the server has opened the session: startUpload goes on into uploadChunks,
\* which runs to the await of its first batch
SessionStarted ==
    /\ nextUploads.status = "starting"
    /\ upstream.session = "none"
    /\ LET totalChunks == TotalChunks(nextUploads.file, ChunkLen)
       IN  /\ Queued(updateUpload(nextUploads,
                         [status |-> "uploading", totalChunks |-> totalChunks]))
           /\ uploadControllers' = [uploadControllers EXCEPT !.current = 1]
           /\ RunLoop(1, [NoLoop EXCEPT
                             !.kind = "uploadChunks",
                             !.chunks = [k \in 1..totalChunks |-> k - 1]],
                      uploadsRef, transfers, upstream.acked)
    /\ upstream' = [upstream EXCEPT !.session = "active"]
    /\ UNCHANGED <<clicks, otherVars>>

\* the server has refused the session: the catch of startUpload
SessionRefused ==
    /\ nextUploads.status = "starting"
    /\ upstream.session = "none"
    /\ upstream' = [upstream EXCEPT !.session = "refused"]
    /\ Queued(updateUpload(nextUploads, [status |-> "error"]))
    /\ UNCHANGED <<uploadControllers, loops, transfers, completeCalls,
                   clicks, otherVars>>

\* a progress event of a chunk request
ChunkProgress(l, c) ==
    /\ transfers[l, c].state = "inflight"
    /\ \E loaded \in (transfers[l, c].sent + 1)..ChunkLen :
          /\ transfers' = [transfers EXCEPT ![l, c].sent = loaded]
          /\ Queued(updateChunkProgress(nextUploads, c, loaded))
    /\ UNCHANGED <<uploadControllers, loops, upstream, completeCalls,
                   clicks, otherVars>>

\* a call of uploadChunk throws.  While the loop awaits the batch,
\* Promise.all rejects: uploadChunks returns on 'Upload aborted' (lines
\* 215-218), continueUploadChunks only on an AbortError, which no call
\* throws (lines 417-420); every other error reaches the catch of
\* startUpload or of resumeUpload.  Later rejections of the batch are lost
Thrown(l, c, error) ==
    /\ transfers' = [transfers EXCEPT
                       ![l, c] = [NoTransfer EXCEPT !.state = "failed",
                                                    !.error = error]]
    /\ IF loops[l].pc = "batch"
       THEN /\ loops' = [loops EXCEPT ![l].pc = "done"]
            /\ IF loops[l].kind = "uploadChunks" /\ error = "Upload aborted"
               THEN UNCHANGED <<uploads, nextUploads, uploadsRef>>
               ELSE Queued(updateUpload(nextUploads, [status |-> "error"]))
       ELSE UNCHANGED <<loops, uploads, nextUploads, uploadsRef>>

\* the server has stored the chunk and answered 200: the chunk is marked,
\* and with the last answer of the batch Promise.all resolves and the loop
\* goes to its next round
ChunkUploaded(l, c) ==
    /\ transfers[l, c].state = "inflight"
    /\ upstream.session = "active"
    /\ upstream' = [upstream EXCEPT !.acked = @ \cup {c}, !.received = @ + 1]
    /\ Queued(markChunkUploaded(nextUploads, c))
    /\ LET sent == [transfers EXCEPT
                       ![l, c] = [NoTransfer EXCEPT !.state = "done"]]
       IN  IF /\ loops[l].pc = "batch"
              /\ \A b \in Batch(loops[l]) : sent[l, b].state = "done"
           THEN RunLoop(l, [loops[l] EXCEPT !.i = @ + concurrency],
                        uploadsRef, sent, upstream.acked \cup {c})
           ELSE /\ transfers' = sent
                /\ UNCHANGED <<loops, completeCalls>>
    /\ UNCHANGED <<uploadControllers, clicks, otherVars>>

\* Math.pow(2, retryCount) * 1000 ms, in seconds
backoffSeconds(retryCount) == 2 ^ retryCount

\* the rate limiter has answered 429: uploadChunk waits and calls itself
\* while retryCount < 3, and throws after that
ChunkRateLimited(l, c) ==
    /\ transfers[l, c].state = "inflight"
    /\ c \in FlakyChunks
    /\ IF transfers[l, c].retryCount < RetryLimit
       THEN /\ transfers' =
                 [transfers EXCEPT
                    ![l, c].state = "backoff",
                    ![l, c].sent = 0,
                    ![l, c].delay = backoffSeconds(transfers[l, c].retryCount)]
            /\ UNCHANGED <<loops, uploads, nextUploads, uploadsRef>>
       ELSE Thrown(l, c, "429")
    /\ UNCHANGED <<uploadControllers, upstream, completeCalls, clicks,
                   otherVars>>

\* the request has failed otherwise: uploadChunk throws
ChunkFailed(l, c) ==
    /\ transfers[l, c].state = "inflight"
    /\ c \in FailingChunks
    /\ Thrown(l, c, "500")
    /\ UNCHANGED <<uploadControllers, upstream, completeCalls, clicks,
                   otherVars>>

\* the backoff is over: uploadChunk(..., retryCount + 1, abortSignal) throws
\* 'Upload aborted' if the signal is aborted and sends the chunk again if not
ChunkRetried(l, c) ==
    /\ transfers[l, c].state = "backoff"
    /\ IF l \in uploadControllers.aborted
       THEN Thrown(l, c, "Upload aborted")
       ELSE /\ transfers' = [transfers EXCEPT ![l, c].state = "inflight",
                                              ![l, c].retryCount = @ + 1,
                                              ![l, c].sent = 0,
                                              ![l, c].delay = 0]
            /\ UNCHANGED <<loops, uploads, nextUploads, uploadsRef>>
    /\ UNCHANGED <<uploadControllers, upstream, completeCalls, clicks,
                   otherVars>>

\* the server has answered uploadAPI.completeUpload: 200 if the session is
\* there with as many chunks accepted as planned and every chunk file on
\* disk, an error otherwise
CompleteAnswered(l) ==
    /\ loops[l].pc = "complete"
    /\ loops' = [loops EXCEPT ![l].pc = "done"]
    /\ IF /\ upstream.session = "active"
          /\ upstream.received = Len(loops[1].chunks)
          /\ upstream.acked = Range(loops[1].chunks)
       THEN /\ upstream' = [upstream EXCEPT !.session = "completed"]
            /\ Queued(updateUpload(nextUploads,
                          [status |-> "processing", progress |-> 100]))
            /\ uploadControllers' = [uploadControllers EXCEPT !.current = 0]
       ELSE /\ Queued(updateUpload(nextUploads, [status |-> "error"]))
            /\ UNCHANGED <<upstream, uploadControllers>>
    /\ UNCHANGED <<transfers, completeCalls, clicks, otherVars>>

\* the controller.abort() of pauseUpload and cancelUpload
abort(controllers) ==
    IF controllers.current # 0
    THEN [controllers EXCEPT !.aborted = @ \cup {controllers.current}]
    ELSE controllers

\* a click on Pause, shown while the status is 'uploading'
pauseUpload ==
    /\ uploads.exists /\ uploads.status = "uploading"
    /\ clicks < MaxClicks
    /\ clicks' = clicks + 1
    /\ uploadControllers' = abort(uploadControllers)
    /\ Rendered(updateUpload(nextUploads,
                    [status |-> "paused", isPaused |-> TRUE]))
    /\ UNCHANGED <<loops, transfers, upstream, completeCalls, otherVars>>

\* a click on Resume, shown while the status is 'paused': resumeUpload and
\* the continueUploadChunks it calls, up to the first await.  Both read the
\* upload in the uploads of the render that made the handler, and the loop
\* reads uploadsRef.current as that render left it
resumeUpload ==
    /\ uploads.exists /\ uploads.status = "paused"
    /\ clicks < MaxClicks
    /\ clicks' = clicks + 1
    /\ \E l \in LoopIds :
          /\ loops[l].kind = "none"
          /\ \A k \in LoopIds : loops[k].kind = "none" => l <= k
          /\ l # 1
          /\ uploadControllers' = [uploadControllers EXCEPT !.current = l]
          /\ RunLoop(l, [NoLoop EXCEPT
                           !.kind = "continueUploadChunks",
                           !.acked = nextUploads.uploaded,
                           !.chunks =
                               SelectSeq([k \in 1..uploads.totalChunks |-> k - 1],
                                         LAMBDA c : c \notin uploads.uploaded),
                           !.everyUploaded =
                               (0..(uploads.totalChunks - 1))
                                   \subseteq uploads.uploaded],
                     uploadsRef, transfers, upstream.acked)
    /\ Rendered(updateUpload(nextUploads,
                    [status |-> "uploading", isPaused |-> FALSE]))
    /\ UNCHANGED <<upstream, otherVars>>

\* a click on Cancel, shown while the status is 'uploading' or 'paused':
\* uploadAPI has no cancelUpload, the call throws a TypeError into the
\* catch of line 339 and no request goes to the server
clientCancelUpload ==
    /\ uploads.exists /\ uploads.status \in {"uploading", "paused"}
    /\ clicks < MaxClicks
    /\ clicks' = clicks + 1
    /\ uploadControllers' = [abort(uploadControllers) EXCEPT !.current = 0]
    /\ Rendered(removeUpload(nextUploads))
    /\ UNCHANGED <<loops, transfers, upstream, completeCalls, otherVars>>

NextClient ==
    \/ clientStartUpload \/ SessionStarted \/ SessionRefused \/ Render
    \/ pauseUpload \/ resumeUpload \/ clientCancelUpload
    \/ \E l \in LoopIds :
          \/ CompleteAnswered(l)
          \/ \E c \in Chunks :
                \/ ChunkProgress(l, c) \/ ChunkUploaded(l, c)
                \/ ChunkRateLimited(l, c) \/ ChunkFailed(l, c)
                \/ ChunkRetried(l, c)

SpecClient == Init /\ [][NextClient]_vars

(***************************************************************************)
(* SpecClientFair: the client when every request succeeds and the user     *)
(* only pauses and resumes.  The browser delivers every response and runs  *)
(* every callback it has queued, and React renders every state it has      *)
(* been given: an answer, a continuation or a render that stays possible   *)
(* happens.                                                                *)
(***************************************************************************)
ClientProgress ==
    \/ SessionStarted \/ Render
    \/ \E l \in LoopIds :
          \/ CompleteAnswered(l)
          \/ \E c \in Chunks : ChunkUploaded(l, c)

NextClientFair ==
    \/ clientStartUpload \/ pauseUpload \/ resumeUpload
    \/ \E l \in LoopIds, c \in Chunks : ChunkProgress(l, c)
    \/ ClientProgress

SpecClientFair == Init /\ [][NextClientFair]_vars /\ WF_vars(ClientProgress)

(***************************************************************************)
(* Rate limiting of the /api routes (server.js 51-61, express-rate-limit   *)
(* 7).  rateLimit(options) builds a middleware with a store of its own     *)
(* that counts the requests of a client in the current window and answers  *)
(* 429 without calling next() once the count is above options.max; it      *)
(* takes windowMs 60000 and max 5 for options it is not given.  The        *)
(* sources hold two configurations: config/default.js has one              *)
(* security.rateLimit {windowMs, max} without the general and upload       *)
(* entries server.js reads, the copy behind commit.sh has both entries.    *)
(* One client is modelled; paths are sequences of segments.                *)
(***************************************************************************)
DefaultMax == 5
RateLimitConfigs ==
    { [general |-> 0, upload |-> 0],            \* config/default.js 49-52
      [general |-> 100, upload |-> 10000] }     \* commit.sh 75-86

\* rateLimit(options): the max of the limiter (0 stands for undefined)
rateLimit(options) == IF options = 0 THEN DefaultMax ELSE options

IngressPaths ==
    { <<"api", "upload", "start">>, <<"api", "upload", "chunk">>,
      <<"api", "upload", "complete">>, <<"api", "upload", "cancel">>,
      <<"api", "upload">>, <<"api", "uploads", "1">>,
      <<"api", "movies">>, <<"api", "movies", "1">>, <<"api", "status">>,
      <<"index.html">> }

\* variant: one limiter for every /api request
limiterOfOnePool(path) ==
    IF Len(path) >= 1 /\ path[1] = "api" THEN "general" ELSE "none"

\* app.use('/api/', ...) runs the middleware for the paths under /api with
\* req.path the rest of the path; req.path.startsWith('/upload/') sends the
\* request to uploadLimiter and every other one to generalLimiter
limiterOf(path) ==
    IF Len(path) >= 1 /\ path[1] = "api"
    THEN LET reqPath == Tail(path)
         IN  IF Len(reqPath) >= 2 /\ reqPath[1] = "upload"
             THEN "upload"
             ELSE "general"
    ELSE "none"

\* setupMiddleware, lines 52-53
setupMiddleware ==
    /\ limiterOptions = [general |-> 0, upload |-> 0]
    /\ \E config \in RateLimitConfigs :
          limiterOptions' = [general |-> rateLimit(config.general),
                             upload |-> rateLimit(config.upload)]
    /\ UNCHANGED <<hits, ingress, uploadVars, workerVars, deliveryVars,
                   clientVars,
                   storageVars, plan>>

\* a request arrives: the limiter of its path counts it and answers 429 or
\* calls next() (status 200 stands for the answer of the routes)
Ingress(path) ==
    /\ limiterOptions # [general |-> 0, upload |-> 0]
    /\ ingress = NoIngress
    /\ LET limiter == limiterOf(path)
       IN  IF limiter = "none"
           THEN /\ ingress' = [path |-> path, status |-> 200]
                /\ UNCHANGED hits
           ELSE /\ hits[limiter] < MaxHits
                /\ hits' = [hits EXCEPT ![limiter] = @ + 1]
                /\ ingress' =
                     [path |-> path,
                      status |-> IF hits[limiter] + 1 > limiterOptions[limiter]
                                 THEN 429 ELSE 200]
    /\ UNCHANGED <<limiterOptions, uploadVars, workerVars, deliveryVars,
                   clientVars,
                   storageVars, plan>>

\* the request has been answered
IngressAnswered ==
    /\ ingress # NoIngress
    /\ ingress' = NoIngress
    /\ UNCHANGED <<limiterOptions, hits, uploadVars, workerVars, deliveryVars,
                   clientVars,
                   storageVars, plan>>

\* the window of a limiter is over: its store forgets the client's count
WindowElapsed(limiter) ==
    /\ hits[limiter] > 0
    /\ hits' = [hits EXCEPT ![limiter] = 0]
    /\ UNCHANGED <<limiterOptions, ingress, uploadVars, workerVars,
                   deliveryVars, clientVars,
                   storageVars, plan>>

NextIngress ==
    \/ setupMiddleware
    \/ \E path \in IngressPaths : Ingress(path)
    \/ IngressAnswered
    \/ \E limiter \in {"general", "upload"} : WindowElapsed(limiter)

SpecIngress == Init /\ [][NextIngress]_vars

(***************************************************************************)
(* The upload list in localStorage (Upload.jsx 14-91).  The save effect    *)
(* runs after every render that changed uploads; the two restore effects   *)
(* run once, after the first render.  An upload is the record startUpload  *)
(* makes, with the fields later updates add; a File or Blob is 1, a field  *)
(* that is undefined 0, a session id that is null 0.  A JSON text is the   *)
(* value it denotes: JSON.stringify leaves out the fields that are         *)
(* undefined and writes a File as {}.                                      *)
(***************************************************************************)
Statuses == {"starting", "uploading", "paused", "processing", "error"}
StoredChunks == {0, 1}

\* the chunks array uploadChunks makes (lines 180-186) with the flags
\* markChunkUploaded has set
ChunksOf(uploaded) ==
    [k \in 1..Cardinality(StoredChunks) |->
        [index |-> k - 1, data |-> 1, uploaded |-> (k - 1) \in uploaded]]

\* the states the upload with id k can be in
ListedUploads(k) ==
    { [id |-> k, file |-> 1, status |-> status,
       sessionId |-> IF status = "starting" THEN 0 ELSE k,
       chunks |-> IF status = "starting" THEN <<>> ELSE ChunksOf(uploaded)] :
         status \in Statuses, uploaded \in SUBSET StoredChunks }

\* variant: the stored chunks keep their index only
stringifyIndexOnly(list) ==
    [k \in 1..Len(list) |->
        [id |-> list[k].id, status |-> list[k].status,
         sessionId |-> list[k].sessionId,
         chunks |-> [c \in 1..Len(list[k].chunks) |->
                        [index |-> list[k].chunks[c].index,
                         uploaded |-> FALSE]]]]

\* lines 54-60: JSON.stringify(uploads.map(u => ({...u, file: undefined,
\* chunks: u.chunks.map(c => ({index: c.index, uploaded: c.uploaded ||
\* false}))})))
stringify(list) ==
    [k \in 1..Len(list) |->
        [id |-> list[k].id, status |-> list[k].status,
         sessionId |-> list[k].sessionId,
         chunks |-> [c \in 1..Len(list[k].chunks) |->
                        [index |-> list[k].chunks[c].index,
                         uploaded |-> list[k].chunks[c].uploaded]]]]

\* lines 15-22: JSON.parse of the item and the filter on the status (no
\* item, or no upload in progress: the list stays as it is, empty)
inProgressUploads(item) ==
    IF ~item.exists THEN <<>>
    ELSE SelectSeq(item.value,
                   LAMBDA u : u.status \in {"uploading", "paused"})

\* localStorage.setItem('soulstream_uploads', text)
setItem(text) == [exists |-> TRUE, value |-> text]

\* a setUploads call that adds an upload (startUpload) or updates one
\* (updateUpload, markChunkUploaded), the render and the save effect
SetUploads ==
    /\ \E k \in 1..MaxListed : \E upload \in ListedUploads(k) :
          LET at == { n \in 1..Len(page) : page[n].id = k }
              list == IF at = {} THEN Append(page, upload)
                      ELSE [page EXCEPT ![CHOOSE n \in at : TRUE] = upload]
          IN  /\ list # page
              /\ page' = list
              /\ storage' = setItem(stringify(list))
    /\ UNCHANGED <<uploadVars, workerVars, deliveryVars, clientVars,
                   ingressVars, plan>>

\* the page is loaded again: the first render has an empty list; the first
\* restore effect reads the item and calls setUploads with the uploads in
\* progress if there are any, the save effect stores the empty list of
\* this render, the second restore effect reads that; the render of the
\* restored list follows and the save effect stores it
Reload ==
    /\ storage.exists
    /\ page' = inProgressUploads(storage)
    /\ storage' = setItem(stringify(inProgressUploads(storage)))
    /\ UNCHANGED <<uploadVars, workerVars, deliveryVars, clientVars,
                   ingressVars, plan>>

NextStorage == SetUploads \/ Reload

SpecStorage == Init /\ [][NextStorage]_vars

(***************************************************************************)
(* The chunk plan.  startUpload answers with chunkSize and totalChunks     *)
(* (server.js 165-170), uploadChunks cuts the file by them (Upload.jsx     *)
(* 176-186), completeUpload computes the count again (server.js 236).      *)
(***************************************************************************)
\* file.slice(start, end): the bytes start .. end - 1 that the file has
slice(size, start, end) ==
    [start |-> Min(start, size), end |-> Min(IF end < start THEN start ELSE end, size)]

\* Upload.jsx 180-186: the chunks of the client
createChunks(size, chunkSize, totalChunks) ==
    [k \in 1..totalChunks |->
        LET i     == k - 1
            start == i * chunkSize
            end   == Min(start + chunkSize, size)
        IN  [index |-> i, data |-> slice(size, start, end)]]

\* a file is chosen: the client sends file.size and a chunk size, the server
\* answers with the plan, the client cuts the file; checked is the count
\* completeUpload compares uploadedChunks.length with
PlanUpload ==
    /\ \E fileSize \in 1..MaxPlanSize, chunkSize \in 1..MaxPlanSize :
          LET totalChunks == TotalChunks(fileSize, chunkSize)
          IN  plan' = [fileSize |-> fileSize, chunkSize |-> chunkSize,
                       totalChunks |-> totalChunks,
                       checked |-> TotalChunks(fileSize, chunkSize),
                       chunks |-> createChunks(fileSize, chunkSize,
                                               totalChunks)]
    /\ UNCHANGED <<uploadVars, workerVars, deliveryVars, clientVars,
                   ingressVars, storageVars>>

SpecPlan == Init /\ [][PlanUpload]_vars

(***************************************************************************)
(* Properties                                                              *)
(***************************************************************************)
\* the chunk indexes of a session's plan, 0 .. totalChunks - 1
Plan(session) == 0..(TotalChunks(session.fileSize, session.chunkSize) - 1)

\* the set of chunk indexes a session has accepted
Accepted(session) == Range(session.uploadedChunks)

\* every index of the plan was accepted exactly once
AcceptedOnceEach(session) ==
    /\ Len(session.uploadedChunks) = Cardinality(Plan(session))
    /\ Accepted(session) = Plan(session)

\* slot r holds a request of this kind that has answered
Answered(r, kind) == reqs[r].kind = kind /\ reqs[r].pc = "done"

\* the request of slot r starts in this step
Starts(r, kind) ==
    reqs[r].pc = "idle" /\ reqs'[r].pc # "idle" /\ reqs'[r].kind = kind

\* the request of slot r starts and answers in this step, for session sid
Handles(r, kind, sid) ==
    Starts(r, kind) /\ reqs'[r].pc = "done" /\ reqs'[r].sid = sid

Found(r) == reqs[r].sid \in SessionIds /\ reqs[r].res # 404

\* C2: completeUpload answers 400 whenever an index of the plan was never
\* accepted, whatever chunk requests came before (repeated indexes, indexes
\* outside the plan).
C2_MissingIndexIs400 ==
    \A r \in Slots :
        (/\ Answered(r, "complete") /\ Found(r)
         /\ Plan(sessions[reqs[r].sid]) \ Accepted(sessions[reqs[r].sid]) # {})
            => reqs[r].res = 400

RECURSIVE SumOver(_, _)
SumOver(f, S) ==
    IF S = {} THEN 0
    ELSE LET x == CHOOSE y \in S : TRUE IN f[x] + SumOver(f, S \ {x})

\* the sizes of the chunk files of the distinct accepted indexes, added up
AcceptedSize(sid) ==
    SumOver([idx \in DOMAIN tempDirs[sid].files |->
                Len(tempDirs[sid].files[idx])],
            Accepted(sessions[sid]) \cap DOMAIN tempDirs[sid].files)

\* C3: a session's uploadedSize is the sum of the sizes of its distinct
\* accepted chunks, so it never exceeds the declared size, and no chunk answer
\* reports more than the declared size (progress above 100%).
C3_UploadedSizeCountsOnce ==
    /\ \A sid \in uploadSessions :
          /\ sessions[sid].uploadedSize = AcceptedSize(sid)
          /\ sessions[sid].uploadedSize <= sessions[sid].fileSize
    /\ \A r \in Slots :
          (Answered(r, "chunk") /\ reqs[r].res = 200)
             => reqs[r].val <= sessions[reqs[r].sid].fileSize

\* C4: a session whose accepted indexes cover the plan is completed with 200,
\* also when some index was accepted more than once.
C4_CoveredPlanCompletes ==
    \A r \in Slots :
        (/\ Answered(r, "complete") /\ Found(r)
         /\ Plan(sessions[reqs[r].sid]) \subseteq Accepted(sessions[reqs[r].sid]))
            => reqs[r].res = 200

\* C5: a completeUpload that has inserted a movie row (and goes on to add the
\* job and mark the session completed) handles a session whose accepted
\* indexes are exactly those of the plan; rows and jobs come from nowhere else.
C5_AssetOnlyForFullPlan ==
    /\ \A r \in Slots :
          (reqs[r].kind = "complete" /\ reqs[r].movieId # 0)
             => Accepted(sessions[reqs[r].sid]) = Plan(sessions[reqs[r].sid])
    /\ \A sid \in SessionIds :
          (dbSessions[sid] # NoRow /\ dbSessions[sid].status = "completed")
             => dbSessions[sid].movie_id \in 1..Len(movies)
    /\ Len(queue) <= Len(movies)
    /\ \A m \in 1..Len(movies) :
          \/ \E sid \in SessionIds :
                dbSessions[sid] # NoRow /\ dbSessions[sid].movie_id = m
          \/ \E r \in Slots : reqs[r].kind = "complete" /\ reqs[r].movieId = m

\* C5 witness: a completeUpload has created movie 1 and marked its session
\* completed
C5_Witness ==
    \E r \in Slots :
        /\ Answered(r, "complete") /\ reqs[r].movieId = 1
        /\ Len(movies) = 1 /\ Len(queue) = 1
        /\ dbSessions[reqs[r].sid].status = "completed"

\* C6: once cancelUpload has removed a session, its temp directory stays
\* removed and every later uploadChunk for its id answers 404.
C6_CancelledStaysGone ==
    \A sid \in cancelled :
        /\ ~tempDirs[sid].exists
        /\ sid \notin uploadSessions
        /\ \A r \in Slots :
              (reqs[r].kind = "chunk" /\ reqs[r].sid = sid) =>
                 (reqs[r].pc = "done" /\ reqs[r].res = 404)

\* C6 witness: a chunk sent to a cancelled session, which had accepted a
\* chunk, has been answered 404
C6_Witness ==
    \E r \in Slots :
        /\ Answered(r, "chunk") /\ reqs[r].sid \in cancelled
        /\ reqs[r].res = 404
        /\ dbSessions[reqs[r].sid].uploaded_size > 0

\* C7: cancelUpload answers 200 whatever the state of the session it names,
\* and leaves no session and no temp directory.
C7_CancelIs200 ==
    \A r \in Slots :
        Answered(r, "cancel")
           => /\ reqs[r].res = 200
              /\ reqs[r].sid \notin uploadSessions
              /\ reqs[r].sid \in SessionIds => ~tempDirs[reqs[r].sid].exists

\* C8: uploadChunk answers 404 for an id that is not in the Map and 410 for
\* a session past its deadline, and in both cases writes no chunk file and
\* leaves every session's accepted chunks, size and row as they were.
C8_RefusedChunkWritesNothing ==
    [][\A r \in Slots :
         Starts(r, "chunk") =>
            LET sid == reqs'[r].sid IN
            /\ sid \notin uploadSessions =>
                  /\ reqs'[r].pc = "done" /\ reqs'[r].res = 404
                  /\ tempDirs' = tempDirs /\ sessions' = sessions
                  /\ dbSessions' = dbSessions
            /\ (sid \in uploadSessions /\ now > sessions[sid].expiresAt) =>
                  /\ reqs'[r].pc = "done" /\ reqs'[r].res = 410
                  /\ tempDirs' = tempDirs /\ sessions' = sessions
                  /\ dbSessions' = dbSessions]_vars

\* C8 witness: a chunk for a session past its deadline was answered 410, the
\* chunk the session had accepted before still in its temp directory
C8_Witness ==
    \E r \in Slots :
        /\ Answered(r, "chunk") /\ reqs[r].res = 410
        /\ sessions[reqs[r].sid].uploadedChunks # <<>>
        /\ DOMAIN tempDirs[reqs[r].sid].files = Accepted(sessions[reqs[r].sid])

\* C9: once the sweep has removed a session past its deadline, the session's
\* status is expired, its temp directory is gone and completeUpload for its
\* id answers 404.
C9_SweptIsExpired ==
    \A sid \in swept :
        /\ dbSessions[sid].status = "expired"
        /\ sid \notin pendingRmdir => ~tempDirs[sid].exists
        /\ \A r \in Slots :
              (Answered(r, "complete") /\ reqs[r].sid = sid) => reqs[r].res = 404

\* C10: a session that cancelUpload or the sweep has removed from the Map is
\* not marked completed afterwards.
C10_TerminalStaysTerminal ==
    \A sid \in cancelled \cup swept :
        dbSessions[sid] # NoRow => dbSessions[sid].status # "completed"

AwaitsFirstAttempt(j) == jobs[j].state = "wait" /\ jobs[j].attemptsMade = 0

C13_ExhaustedJobLeavesError ==
    \A j \in Uploads :
        jobs[j].attemptsMade >= Attempts
           => /\ jobs[j].state = "failed" /\ jobs[j].pc = "idle"
              /\ assets[jobs[j].movieId].status = "error"
              /\ assets[jobs[j].movieId].error_message # ""

\* C14: a movie whose status is ready or error keeps that status.
C14_ReadyAndErrorAreTerminal ==
    [][\A m \in Uploads :
         assets[m].status \in {"ready", "error"}
            => assets'[m].status = assets[m].status]_vars

\* the GET handled last asked for the bytes start..end of its file (end the
\* last byte when the header names none)
AsksFor(start, end) ==
    /\ delivery.response.status # 400 /\ delivery.exists
    /\ delivery.range # <<>>
    /\ delivery.start = start
    /\ end = IF delivery.hasEnd THEN delivery.end
             ELSE Len(delivery.content) - 1

\* C15: a Range header bytes=start-end, or bytes=start-, with
\* 0 <= start <= end < fileSize is answered 206 with Content-Range
\* "bytes start-end/fileSize", Content-Length end - start + 1,
\* Accept-Ranges bytes and the bytes start..end of the file as body.
C15_RangeIsServed ==
    \A start \in 0..(MaxVideoLen + 1), end \in 0..(MaxVideoLen + 1) :
        (AsksFor(start, end) /\ start <= end /\ end < Len(delivery.content))
           => /\ delivery.response.status = 206
              /\ delivery.response.contentRange =
                    BytesSp \o NumberToString(start) \o <<"-">> \o NumberToString(end)
                       \o <<"/">> \o NumberToString(Len(delivery.content))
              /\ delivery.response.contentLength = end - start + 1
              /\ delivery.response.acceptRanges = "bytes"
              /\ delivery.response.body =
                    [i \in 1..(end - start + 1) |-> delivery.content[start + i]]

\* C15 witness: bytes=3-10 of a file of 11 bytes was served by serveSegment
C15_Witness ==
    /\ delivery.handler = "serveSegment"
    /\ delivery.range = BytesEq \o <<"3", "-", "1", "0">>
    /\ Len(delivery.content) = 11
    /\ delivery.response.status = 206
    /\ delivery.response.body = <<4, 5, 6, 7, 8, 9, 10, 11>>

\* C16: a Range header with start > end, start >= fileSize or end >= fileSize
\* is answered 416 with no body.
C16_BadRangeIs416 ==
    \A start \in 0..(MaxVideoLen + 1), end \in -1..(MaxVideoLen + 1) :
        (/\ AsksFor(start, end)
         /\ \/ start > end
            \/ start >= Len(delivery.content)
            \/ end >= Len(delivery.content))
           => /\ delivery.response.status = 416
              /\ delivery.response.body = <<>>
              /\ delivery.response.json = ""


\* the chunk requests sent and not answered
InFlight == { t \in DOMAIN transfers : transfers[t].state = "inflight" }

\* C17: at every instant at most 3 chunk requests of the upload are in
\* flight, whatever the order of start, pause, resume, cancel and the
\* answers to the chunks, a resume while the requests of the paused batch
\* are still out included
C17_AtMostThreeInFlight == Cardinality(InFlight) <= concurrency

\* a resume has run continueUploadChunks while the three requests of the
\* paused batch are still in flight
C17_Witness ==
    /\ \E l \in LoopIds : loops[l].kind = "continueUploadChunks"
    /\ 1 \in uploadControllers.aborted
    /\ Cardinality({ t \in InFlight : t[1] = 1 }) = concurrency

\* the chunk indexes of the upload, 0 .. totalChunks - 1
AllChunks == Range(loops[1].chunks)

\* C18: uploadAPI.completeUpload is called only when the server has
\* acknowledged every chunk of the upload, never while a chunk is
\* unacknowledged, a loop left by a pause or a cancel included
C18_CompleteOnlyWhenAllAcknowledged ==
    \A k \in 1..Len(completeCalls) : completeCalls[k] = AllChunks

\* C19: uploadAPI.completeUpload is called at most once for an upload,
\* whatever the order of the first loop, pause and resume
C19_CompleteAtMostOnce == Len(completeCalls) <= 1

\* C20: the progress the page shows for the upload never decreases from
\* one render to the next while the upload is transferring (status
\* 'uploading'), retries of a chunk included, and does not change while
\* the upload is paused
C20_ProgressMonotoneAndFrozenInPause ==
    [][uploads.exists /\ uploads'.exists =>
         /\ uploads.status = "uploading" /\ uploads'.status = "uploading"
               => uploads'.progress >= uploads.progress
         /\ uploads.status = "paused" /\ uploads'.status = "paused"
               => uploads'.progress = uploads.progress]_vars

\* the calls of uploadChunk that have thrown an error other than the abort
HasThrown(t) ==
    transfers[t].state = "failed" /\ transfers[t].error \in {"429", "500"}

\* C21: a 429 on a chunk makes uploadChunk send that chunk again, and no
\* other, after 1, 2 and 4 seconds and at most 3 times; after the third
\* retry, and on every other error, the call throws, the chunk is not sent
\* again and the upload, while in the list, has status 'error'
C21_RetryOn429Only ==
    /\ [](\A t \in DOMAIN transfers :
            /\ transfers[t].retryCount <= RetryLimit
            /\ transfers[t].state = "backoff"
                  => transfers[t].delay \in {1, 2, 4}
                     /\ transfers[t].delay = 2 ^ transfers[t].retryCount
            /\ HasThrown(t) /\ nextUploads.exists
                  => nextUploads.status = "error")
    /\ [][\A t \in DOMAIN transfers :
            /\ transfers'[t].state = "inflight"
               /\ transfers[t].state \notin {"none", "inflight"}
                  => /\ transfers[t].state = "backoff"
                     /\ transfers'[t].retryCount = transfers[t].retryCount + 1
                     /\ \A u \in DOMAIN transfers \ {t} :
                            transfers'[u] = transfers[u]
            /\ HasThrown(t) => transfers'[t] = transfers[t]]_vars

\* a start request whose filename has a disallowed extension or whose
\* declared size is above the maximum
Disallowed(body) == ToLowerCase(body.filename.ext) \notin AllowedExtensions
Oversize(body) == body.fileSize > MaxFileSize

\* C22: a start request with a disallowed extension or a declared size
\* above the maximum is answered 400 before the handler's first await, and
\* the step changes nothing but the request: no session in the Map, no temp
\* directory, no row in upload_sessions
C22_InvalidStartIsRejected ==
    [][\A r \in Slots :
         Starts(r, "start")
         /\ (Disallowed(reqs'[r].body) \/ Oversize(reqs'[r].body))
            => /\ reqs'[r].pc = "done" /\ reqs'[r].res = 400
               /\ UNCHANGED <<sessions, uploadSessions, tempDirs, dbSessions,
                              clientIds, mediaFiles, movies, queue>>]_vars

\* a start request for notes.1995.txt of more than the maximum size has
\* been answered 400
C22_Witness ==
    \E r \in Slots :
       /\ Answered(r, "start") /\ reqs[r].res = 400
       /\ Disallowed(reqs[r].body) /\ Oversize(reqs[r].body)

\* the URL is /api/upload/ followed by something, or another URL under /api
UnderApiUpload(path) ==
    Len(path) >= 3 /\ path[1] = "api" /\ path[2] = "upload"
UnderApi(path) == Len(path) >= 1 /\ path[1] = "api"

\* C23: every /api request is counted by exactly one of the two limiters:
\* a request under /api/upload/ by the upload limiter alone, every other
\* /api request by the general limiter alone, and a request outside /api by
\* neither; it is answered 429 exactly when the count of its own limiter
\* is above that limiter's maximum
C23_TwoSeparatePools ==
    [][ingress = NoIngress /\ ingress' # NoIngress =>
         LET path == ingress'.path
             counted(limiter) == hits'[limiter] = hits[limiter] + 1
             untouched(limiter) == hits'[limiter] = hits[limiter]
             limited(limiter) ==
                 ingress'.status = 429
                     <=> hits'[limiter] > limiterOptions[limiter]
         IN  IF UnderApiUpload(path)
             THEN counted("upload") /\ untouched("general")
                  /\ limited("upload")
             ELSE IF UnderApi(path)
             THEN counted("general") /\ untouched("upload")
                  /\ limited("general")
             ELSE untouched("general") /\ untouched("upload")
                  /\ ingress'.status = 200]_vars

\* the upload limiter has answered 429 to a chunk request while the general
\* limiter has counted nothing
C23_Witness ==
    /\ ingress.path = <<"api", "upload", "chunk">>
    /\ ingress.status = 429
    /\ hits.general = 0

\* C24: a chunk request that is suspended at its writeFile when its session
\* has been cancelled writes no chunk file, changes neither the session's
\* counters nor its row, and is not answered with success
C24_CancelFencesChunkInFlight ==
    [][\A r \in Slots :
          /\ reqs[r].kind = "chunk" /\ reqs[r].pc = "writeFile"
          /\ reqs[r].sid \in cancelled
          /\ reqs'[r] # reqs[r]
          => /\ reqs'[r].pc = "done" /\ reqs'[r].res # 200
             /\ tempDirs'[reqs[r].sid] = tempDirs[reqs[r].sid]
             /\ sessions'[reqs[r].sid] = sessions[reqs[r].sid]
             /\ dbSessions'[reqs[r].sid] = dbSessions[reqs[r].sid]]_vars

\* the movie row of the completion in slot r is in the table, and its job
\* is in the queue
Committed(r) ==
    /\ reqs[r].movieId \in 1..Len(movies)
    /\ movies[reqs[r].movieId].path = MoviePath(sessions[reqs[r].sid])
Enqueued(r) ==
    \E j \in 1..Len(queue) : queue[j].movieId = reqs[r].movieId
\* slot r holds a completeUpload that takes a step
CompletionSteps(r) ==
    /\ reqs[r].kind = "complete" /\ reqs[r].pc \notin {"idle", "done"}
    /\ reqs'[r] # reqs[r]

\* C25: completeUpload writes and closes the final file, then inserts the
\* movie row, then adds the job, then removes the temp directory and the
\* session: in every state a completion that is past the insert has its row,
\* one that is past the add has its job, and the step of a completion that
\* removes the temp directory or the session is taken with the row in the
\* table and the job in the queue; the row is inserted only after the last
\* chunk was written to the final file
C25_ScratchOutlivesCommit ==
    /\ [](\A r \in Slots : reqs[r].kind = "complete" =>
            /\ reqs[r].pc \in {"queueAdd", "updateMovie", "rm",
                               "updateUploadSession"} => Committed(r)
            /\ reqs[r].pc \in {"updateMovie", "rm", "updateUploadSession"}
                  => Enqueued(r)
            /\ reqs[r].pc = "done" /\ reqs[r].res = 200
                  => Committed(r) /\ Enqueued(r)
                     /\ ~tempDirs[reqs[r].sid].exists
                     /\ reqs[r].sid \notin uploadSessions)
    /\ [][\A r \in Slots : CompletionSteps(r) =>
            LET sid == reqs[r].sid IN
            /\ (tempDirs[sid].exists /\ ~tempDirs'[sid].exists)
                 \/ (sid \in uploadSessions /\ sid \notin uploadSessions')
                  => reqs[r].pc = "rm" /\ Committed(r) /\ Enqueued(r)
            /\ Len(movies') > Len(movies)
                  => /\ reqs[r].pc = "createMovie"
                     /\ reqs[r].i = TotalChunks(sessions[sid].fileSize,
                                                sessions[sid].chunkSize)
            /\ Len(queue') > Len(queue) => Committed(r)]_vars

\* a completion has removed the temp directory and the session and has not
\* answered yet
C25_Witness ==
    \E r \in Slots :
        /\ reqs[r].kind = "complete" /\ reqs[r].pc = "updateUploadSession"
        /\ ~tempDirs[reqs[r].sid].exists
        /\ Committed(r) /\ Enqueued(r)

\* Resume has been clicked and the user clicks nothing more
Resumed ==
    /\ \E l \in LoopIds : loops[l].kind = "continueUploadChunks"
    /\ nextUploads.exists /\ ~nextUploads.isPaused
    /\ clicks = MaxClicks

\* C26: when every chunk request succeeds, an upload that was paused and
\* resumed is completed on the server and reaches the status processing
C26_ResumedUploadCompletes ==
    Resumed ~> (nextUploads.status = "processing"
                    /\ upstream.session = "completed")

\* the chunks loop l has called uploadChunk for
Sent(l) == { c \in Chunks : transfers[l, c].state # "none" }
\* continueUploadChunks call l has returned or is at its completeUpload
Returned(l) ==
    /\ loops[l].kind = "continueUploadChunks"
    /\ loops[l].pc \in {"done", "complete"}
    /\ \A c \in Chunks : transfers[l, c].state \notin {"failed", "backoff"}

\* C27: a continueUploadChunks call sends no chunk that was acknowledged
\* when Resume was clicked, and when it has returned without a failed
\* request it has sent every other chunk of the upload
C27_ResumeSendsTheRemainder ==
    \A l \in LoopIds : loops[l].kind = "continueUploadChunks" =>
        /\ Sent(l) \cap loops[l].acked = {}
        /\ Returned(l) /\ nextUploads.exists
              => Sent(l) = AllChunks \ loops[l].acked

\* Cancel has been clicked on an upload whose session the server had opened
Cancelled == ~nextUploads.exists /\ upstream.session # "none"
\* a request of the upload is out
Outstanding(t) == transfers[t].state \in {"inflight", "backoff"}

\* C28: once Cancel has been clicked the upload is not in the list, no
\* chunk request is in flight, the server has the session no longer, and
\* from then on no chunk reaches the server and completeUpload is not called
C28_CancelEndsTheUpload ==
    /\ [](Cancelled =>
            /\ upstream.session # "active"
            /\ \A t \in DOMAIN transfers : ~Outstanding(t))
    /\ [][Cancelled =>
            /\ ~nextUploads'.exists
            /\ completeCalls' = completeCalls
            /\ upstream'.received = upstream.received
            /\ \A t \in DOMAIN transfers :
                  transfers'[t].state = "inflight"
                      => transfers[t].state = "inflight"]_vars

\* a further attempt of a job of movie m is to come
AttemptPending(m) ==
    \E j \in Uploads :
        /\ jobs[j].movieId = m
        /\ jobs[j].state \in {"wait", "active", "delayed"}

\* C29: a movie has status error only when no attempt of its job is to
\* come, and a movie that has status error does not become ready
C29_ErrorOnlyAfterLastAttempt ==
    /\ [](\A m \in Uploads : assets[m].status = "error" => ~AttemptPending(m))
    /\ [][\A m \in Uploads :
            assets[m].status = "error" => assets'[m].status # "ready"]_vars

\* the job of movie m has run to its end
JobSucceeded(m) ==
    \E j \in Uploads : jobs[j].movieId = m /\ jobs[j].state = "completed"

\* C30: a movie with status ready has its poster path, its playlist path
\* and its duration stored and its job completed, and a movie becomes ready
\* from status processing only
C30_ReadyIsComplete ==
    /\ [](\A m \in Uploads : assets[m].status = "ready" =>
            /\ assets[m].poster_path # ""
            /\ assets[m].hls_path # ""
            /\ assets[m].duration # 0
            /\ JobSucceeded(m))
    /\ [][\A m \in Uploads :
            assets'[m].status = "ready" /\ assets[m].status # "ready"
                => assets[m].status = "processing"]_vars

IsSession(session) == session \notin {NoSession, Collected}

\* C32: the deadline of a session is the time of its creation plus the
\* session timeout, its row holds the same deadline, and no step changes
\* either while the session object and the row exist
C32_DeadlineIsFixed ==
    /\ [](\A sid \in SessionIds :
            IsSession(sessions[sid]) /\ dbSessions[sid] # NoRow
                => dbSessions[sid].expires_at = sessions[sid].expiresAt)
    /\ [][\A sid \in SessionIds :
            /\ IsSession(sessions[sid]) /\ IsSession(sessions'[sid])
                  => sessions'[sid].expiresAt = sessions[sid].expiresAt
            /\ ~IsSession(sessions[sid]) /\ IsSession(sessions'[sid])
                  => sessions'[sid].expiresAt = now + SessionTimeout
            /\ dbSessions[sid] # NoRow /\ dbSessions'[sid] # NoRow
                  => dbSessions'[sid].expires_at = dbSessions[sid].expires_at]_vars

\* a session made at hour 0 has taken a chunk and refused a completion a
\* day later
C32_Witness ==
    \E sid \in uploadSessions :
        /\ now > 0 /\ sessions[sid].expiresAt = SessionTimeout
        /\ Len(sessions[sid].uploadedChunks) > 0
        /\ Answered(1, "complete") /\ reqs[1].sid = sid /\ reqs[1].res = 400

\* the session id and the indexes of the acknowledged chunks of an upload
Mirror(upload) ==
    [sessionId |-> upload.sessionId,
     acknowledged |-> { upload.chunks[c].index :
                          c \in { d \in 1..Len(upload.chunks) :
                                    upload.chunks[d].uploaded } }]
\* the uploads of a list that are uploading or paused, in their order
InProgress(list) ==
    SelectSeq(list, LAMBDA u : u.status \in {"uploading", "paused"})
\* the page is loaded again in this step
Reloads == storage.exists /\ page' = inProgressUploads(storage)

SliceSize(k) == plan.chunks[k].data.end - plan.chunks[k].data.start
RECURSIVE SumOfSlices(_)
SumOfSlices(n) == IF n = 0 THEN 0 ELSE SliceSize(n) + SumOfSlices(n - 1)

\* C34: totalChunks is the least count n with n * chunkSize >= fileSize,
\* completeUpload checks against the same count, the client makes that many
\* chunks, chunk i holds the bytes from i * chunkSize up to the smaller of
\* (i + 1) * chunkSize and fileSize, no chunk is empty, every chunk but the
\* last has chunkSize bytes, and the sizes add up to fileSize
C34_ChunkPlanIsConsistent ==
    plan # NoPlan =>
        /\ plan.totalChunks * plan.chunkSize >= plan.fileSize
        /\ (plan.totalChunks - 1) * plan.chunkSize < plan.fileSize
        /\ plan.checked = plan.totalChunks
        /\ Len(plan.chunks) = plan.totalChunks
        /\ \A k \in 1..Len(plan.chunks) :
              /\ plan.chunks[k].index = k - 1
              /\ plan.chunks[k].data.start = (k - 1) * plan.chunkSize
              /\ plan.chunks[k].data.end =
                    Min(k * plan.chunkSize, plan.fileSize)
              /\ SliceSize(k) > 0
              /\ k < Len(plan.chunks) => SliceSize(k) = plan.chunkSize
        /\ SumOfSlices(Len(plan.chunks)) = plan.fileSize

\* a plan of three chunks whose last chunk is shorter
C34_Witness ==
    /\ plan.totalChunks = 3
    /\ SliceSize(3) < plan.chunkSize

\* both slots hold a completeUpload of session sid that has answered
BothFinished(sid) ==
    \A r \in Slots : Answered(r, "complete") /\ reqs[r].sid = sid
\* the rows and the jobs of a movie directory
RowsOf(path) == { m \in 1..Len(movies) : movies[m].path = path }
JobsOf(path) == { j \in 1..Len(queue) : queue[j].moviePath = path }

\* C35: when two completeUpload calls of one session whose chunks were
\* accepted once each have both answered, the session's movie has at most
\* one row and one job, and if it has a row its movie.mp4 is the chunks in
\* the order of their indexes
C35_DoubleCompleteIsHarmless ==
    \A sid \in SessionIds :
        (/\ BothFinished(sid)
         /\ IsSession(sessions[sid])
         /\ AcceptedOnceEach(sessions[sid]))
        => LET path == MoviePath(sessions[sid]) IN
           /\ Cardinality(RowsOf(path)) <= 1
           /\ Cardinality(JobsOf(path)) <= 1
           /\ RowsOf(path) # {}
                 => mediaFiles[path] =
                        SourceFile(sid, sessions[sid].fileSize)

\* C36: a completeUpload that answers anything but 200 leaves every file
\* of the media directory as it was
C36_FailedCompleteWritesNothing ==
    [][\A r \in Slots :
         (Starts(r, "complete") /\ reqs'[r].pc = "done" /\ reqs'[r].res # 200)
            => mediaFiles' = mediaFiles]_vars

(***************************************************************************)
(* SpecSweepFair: Spec with its scheduling.  The interval timer of line 41 *)
(* keeps firing, the clock keeps running up to MaxNow, and an answer that  *)
(* is ready is sent.  No request is ever owed by a client.                 *)
(***************************************************************************)
SpecSweepFair ==
    /\ Init /\ [][Next]_vars
    /\ WF_vars(startSessionCleanup)
    /\ WF_vars(Idle /\ Tick)
    /\ WF_vars(\E r \in Slots : Respond(r))

\* the session sid was created and is not in the Map any more
Left(sid) == sessions[sid] # NoSession /\ sid \notin uploadSessions

\* C37: once a session has left the Map, by a completion, a cancel, the sweep
\* or the 410 of uploadChunk, its scratch directory is eventually removed
C37_ScratchIsReclaimed ==
    \A sid \in SessionIds : Left(sid) ~> ~tempDirs[sid].exists


\* C38: a GET with a Range header for a file that exists is answered 206 or
\* 416 by serveVideo, serveSegment and MediaOnlyServer.serveVideo
C38_RangeIsNever500 ==
    (/\ delivery # NoDelivery
     /\ delivery.exists /\ delivery.range # <<>>
     /\ delivery.response.status # 400)
        => delivery.response.status \in {206, 416}


\* C39: a completeUpload for a session whose deadline has passed is not
\* answered 200 and adds no row to movies
C39_NoCompletionPastDeadline ==
    [][\A r \in Slots : \A sid \in uploadSessions :
         (Handles(r, "complete", sid) /\ Expired(State, sessions[sid]))
            => (reqs'[r].res # 200 /\ movies' = movies)]_vars

=============================================================================
